---- MODULE Spec2Model ----
(***************************************************************************)
(* Model of the configuration acquisition engine of auto-homelab: a run   *)
(* of `configure` walks a schema of sections and variables, resolves each *)
(* variable through its type strategy (possibly prompting the user), and  *)
(* writes one dotenv document.                                             *)
(*                                                                         *)
(* Two implementations of the run live in the repository and both are     *)
(* modelled; `variant` says which one runs:                                *)
(*   "app"  src/app/configure.py + src/app/env_vars.py                     *)
(*   "cfg"  src/scripts/configuration/configure.py + env_vars.py           *)
(* In "cfg" the orchestrator's call get_value_for_type(...) is the         *)
(* registry dispatch acquire_value_for_var of the same package.            *)
(***************************************************************************)
EXTENDS Integers, Sequences, FiniteSets, TLC

\* ---------------------------------------------------------------- bounds
MaxSections == 2    \* sections in a schema
MaxVars == 2        \* variables in a schema (all sections together)
MaxRetries == 1     \* rejected lines at one prompt before the user complies
MaxEnv == 1         \* environment variables set when the run starts

\* Python's None
None == "<None>"

\* ---------------------------------------------------------------- inputs
\* A schema variable as the JSON gives it: its type tag and its value.
\* type = None is a variable whose "type" is missing (a structural
\* violation); "BOGUS" is a well-formed but unregistered type tag.
VarDecls ==
    { [type |-> "CONSTANT",  value |-> " c "],
      [type |-> "CONSTANT",  value |-> None],
      [type |-> "GENERATED", value |-> "ALPHA:32"],
      [type |-> "IP",        value |-> None],
      [type |-> "STRING",    value |-> None],
      [type |-> "PATH",      value |-> None],
      [type |-> "BOGUS",     value |-> None],
      [type |-> None,        value |-> None] }

InteractiveTypes == {"IP", "STRING", "PATH"}

RECURSIVE SumSeq(_)
SumSeq(s) == IF s = <<>> THEN 0 ELSE Head(s) + SumSeq(Tail(s))

SeqsUpTo(S, n) == UNION {[1..m -> S] : m \in 0..n}

\* How many variables each section holds.
Layouts == {sz \in SeqsUpTo(0..MaxVars, MaxSections) : SumSeq(sz) <= MaxVars}

MakeSchema(sz, flat) ==
    [s \in 1..Len(sz) |->
        [k \in 1..sz[s] |-> flat[SumSeq(SubSeq(sz, 1, s - 1)) + k]]]

Schemas ==
    UNION { {MakeSchema(sz, flat) : flat \in [1..SumSeq(sz) -> VarDecls]}
            : sz \in Layouts }

\* The lines a user may type at a prompt.
Lines == {"", " ", "10.0.0.1", "~", "/etc/hosts", "/proc/x"}

\* Values. Every section and variable carries this description.
Description == "d"
Prefix == "HOMELAB"
Secret == "s3cr3t"      \* what secrets.choice produced
EnvValue == "stale"     \* the value of every environment variable that is set

\* f"{prefix}_{section}" and f"{section.name}_{var}": names are kept as the
\* tuple of their parts; sections and variables are named by their position.
SectionFullName(prefix, s) == <<prefix, s>>
VarFullName(sectionName, k) == Append(sectionName, k)

DeclaredNames(sch) ==
    UNION {{VarFullName(SectionFullName(Prefix, s), k) : k \in 1..Len(sch[s])}
            : s \in 1..Len(sch)}

\* ----------------------------------------------------------------- state
VARIABLES
    variant,     \* which implementation runs
    schema,      \* the parsed JSON: a sequence of sections of VarDecls
    environ,     \* os.environ: the names that are set (to EnvValue)
    dirs,        \* the directories that exist in the filesystem
    pc,          \* where the run is
    sec,         \* index of the section being walked
    idx,         \* index of the variable being resolved
    retries,     \* lines rejected at the current prompt
    root,        \* EnvVarsRoot.sections
    console,     \* what the user has seen: headers, prompts, resolutions
    output,      \* the file .env.generated.<ts>: whether it exists, its lines
    written,     \* number of write_text calls
    exitStatus,  \* <<status>> once the process has exited, <<>> while it runs
    error,       \* the exception that ended the run, or None
    unit         \* a function or method exercised on its own, outside a run:
                 \* its arguments and what the call came to (NoUnit in a run)

vars == <<variant, schema, environ, dirs, pc, sec, idx, retries, root,
          console, output, written, exitStatus, error, unit>>

\* What a run never changes.
inputs == <<variant, schema, environ, unit>>

NoUnit == <<>>

\* ------------------------------------------------------- strings, paths
\* str.strip() on the strings of the model.
Strip(s) ==
    CASE s = " "   -> ""
      [] s = " c " -> "c"
      [] OTHER     -> s

\* str.upper() on the type tags of the model.
Upper(s) ==
    CASE s = "ip"       -> "IP"
      [] s = "Constant" -> "CONSTANT"
      [] OTHER          -> s

\* ipaddress.ip_address accepts these strings of the model and no other.
IpLiterals == {"10.0.0.1"}

\* The filesystem the PATH strategy sees: /home/user is a directory,
\* /etc/hosts a file, nothing can be created under /proc, and the working
\* directory is /cwd.
Files == {"/etc/hosts"}
InitialDirs == {"/home/user"}
Expanduser(p) == IF p = "~" THEN "/home/user" ELSE p
PathResolve(p) == IF p = "10.0.0.1" THEN "/cwd/10.0.0.1" ELSE p
PathExists(p, d) == PathResolve(p) \in d \cup Files
PathIsDir(p, d) == PathResolve(p) \in d
MkdirFails(p) == p = "/proc/x"

\* -------------------------------------------------------------- Validator
\* validate_string raises unless this holds.
validate_string(value) == value # None /\ Strip(value) # ""

\* validate_ip raises unless this holds.
validate_ip(value) == value \in IpLiterals

\* ------------------------------------------------ outcomes of a strategy
\* The exceptions that end a run, named by what their message says:
\*   "SchemaError"      the schema failed validation
\*   "UnsupportedType"  ValueError("Unsupported TYPE ...")
\*   "InvalidString"    ValueError("... must be a non-empty string.")
\*   "AttributeError"   None has no attribute strip
\* What a call of a strategy (or one turn of its prompt loop) comes to:
\* it returns a value, raises, or blocks in input() waiting for a line.
\* `origin` says where a returned value came from; `dirs` is the
\* filesystem after the call.
Return(v, origin, d) ==
    [kind |-> "return", value |-> v, error |-> None, origin |-> origin, dirs |-> d]
Raise(e, d) ==
    [kind |-> "raise", value |-> None, error |-> e, origin |-> None, dirs |-> d]
Prompt(d) ==
    [kind |-> "prompt", value |-> None, error |-> None, origin |-> None, dirs |-> d]

\* _prompt: input(prompt_text).strip()
prompt_line(line) == Strip(line)

\* ------------------------------------------------ src/app/env_vars.py
\* get_value_for_type up to its first input(): the types that need no
\* user input return, every other type tag (registered or not) prompts.
get_value_for_type(var_type, var_value, d) ==
    CASE var_type = "CONSTANT"  -> Return(var_value, "schema", d)
      [] var_type = "GENERATED" -> Return(Secret, "generated", d)
      [] OTHER                  -> Prompt(d)

\* One turn of get_value_for_type's `while True` loop on the line read.
\* STRING's except branch has no `continue`, so a rejected line falls out
\* of the match to the final raise; PATH validates outside its try.
get_value_for_type_line(var_type, line, d) ==
    LET user_val == prompt_line(line)
        p == Expanduser(user_val)
    IN  CASE var_type = "IP" ->
               IF validate_ip(user_val) THEN Return(user_val, "prompt", d)
               ELSE Prompt(d)
          [] var_type = "STRING" ->
               IF validate_string(user_val) THEN Return(user_val, "prompt", d)
               ELSE Raise("UnsupportedType", d)
          [] var_type = "PATH" ->
               IF ~validate_string(user_val) THEN Raise("InvalidString", d)
               ELSE IF PathExists(p, d)
                    THEN IF PathIsDir(p, d)
                         THEN Return(PathResolve(p), "prompt", d)
                         ELSE Prompt(d)
                    ELSE IF MkdirFails(p) THEN Prompt(d)
                         ELSE Return(PathResolve(p), "prompt",
                                     d \cup {PathResolve(p)})
          [] OTHER -> Raise("UnsupportedType", d)

\* ------------------------------- src/scripts/configuration/env_vars.py
\* os.environ.get(var_name) is truthy
environ_get(env, var_name) == var_name \in env

\* A plausible slip: the environment short-circuit of the other four
\* strategies pasted into ConstantStrategy as well.
ConstantStrategy_acquire_environ(var_name, default_spec, env, d) ==
    IF environ_get(env, var_name) THEN Return(EnvValue, "env", d)
    ELSE Return(default_spec, "schema", d)

\* ConstantStrategy.acquire: "We do NOT check here whether the variable
\* already exists in .env"
ConstantStrategy_acquire(var_name, default_spec, env, d) ==
    Return(default_spec, "schema", d)

GeneratedStrategy_acquire(var_name, default_spec, env, d) ==
    IF environ_get(env, var_name) THEN Return(EnvValue, "env", d)
    ELSE Return(Secret, "generated", d)

IpStrategy_acquire(var_name, default_spec, env, d) ==
    IF environ_get(env, var_name) THEN Return(EnvValue, "env", d)
    ELSE Prompt(d)

IpStrategy_line(line, d) ==
    LET user_val == prompt_line(line)
    IN  IF validate_ip(user_val) THEN Return(user_val, "prompt", d)
        ELSE Prompt(d)

StringStrategy_acquire(var_name, default_spec, env, d) ==
    IF environ_get(env, var_name) THEN Return(EnvValue, "env", d)
    ELSE Prompt(d)

StringStrategy_line(line, d) ==
    LET user_val == prompt_line(line)
    IN  IF validate_string(user_val) THEN Return(user_val, "prompt", d)
        ELSE Prompt(d)

PathStrategy_acquire(var_name, default_spec, env, d) ==
    IF environ_get(env, var_name) THEN Return(EnvValue, "env", d)
    ELSE Prompt(d)

PathStrategy_line(line, d) ==
    LET user_val == prompt_line(line)
        p == Expanduser(user_val)
    IN  IF ~validate_string(user_val) THEN Raise("InvalidString", d)
        ELSE IF PathExists(p, d)
             THEN IF PathIsDir(p, d)
                  THEN Return(PathResolve(p), "prompt", d)
                  ELSE Prompt(d)
             ELSE IF MkdirFails(p) THEN Prompt(d)
                  ELSE Return(PathResolve(p), "prompt", d \cup {PathResolve(p)})

\* _default_registry after the five register calls
default_registry == {"CONSTANT", "GENERATED", "IP", "STRING", "PATH"}

\* TypeHandlerRegistry.get raises unless this holds.
TypeHandlerRegistry_get(type_name) == Upper(type_name) \in default_registry

\* acquire_value_for_var: look the strategy up, then call its acquire.
acquire_value_for_var(var_name, var_type, default_spec, env, d) ==
    IF ~TypeHandlerRegistry_get(var_type) THEN Raise("UnsupportedType", d)
    ELSE CASE Upper(var_type) = "CONSTANT" ->
                ConstantStrategy_acquire(var_name, default_spec, env, d)
           [] Upper(var_type) = "GENERATED" ->
                GeneratedStrategy_acquire(var_name, default_spec, env, d)
           [] Upper(var_type) = "IP" ->
                IpStrategy_acquire(var_name, default_spec, env, d)
           [] Upper(var_type) = "STRING" ->
                StringStrategy_acquire(var_name, default_spec, env, d)
           [] Upper(var_type) = "PATH" ->
                PathStrategy_acquire(var_name, default_spec, env, d)

\* One turn of the prompt loop of the strategy that is waiting for input.
acquire_line(var_type, line, d) ==
    CASE Upper(var_type) = "IP"     -> IpStrategy_line(line, d)
      [] Upper(var_type) = "STRING" -> StringStrategy_line(line, d)
      [] Upper(var_type) = "PATH"   -> PathStrategy_line(line, d)


\* ------------------------------------------------------- variable model
\* EnvVar.__init__ of src/app/env_vars.py strips a string value.
app_EnvVar(name, var_type, description, value) ==
    [name |-> name, type |-> var_type, description |-> description,
     value |-> IF value # None THEN Strip(value) ELSE None]

\* The EnvVar dataclass of src/scripts/configuration/env_vars.py keeps it.
cfg_EnvVar(name, var_type, description, value) ==
    [name |-> name, type |-> var_type, description |-> description,
     value |-> value]

\* EnvVar.set_value: self.value = value.strip()   (value is a string)
EnvVar_set_value(var, value) == [var EXCEPT !.value = Strip(value)]

EnvVarsSection(name, description) ==
    [name |-> name, description |-> description, vars |-> <<>>]

\* EnvVarsRoot.add_section
add_section(r, section) == Append(r, section)

\* EnvVarsSection.add_var, on the section being walked (the last one)
add_var(r, var) == [r EXCEPT ![Len(r)].vars = Append(@, var)]

\* A plausible slip: the resolved value is dropped, `var.set_value(value)`
\* never made.
set_last_value_skipped(r, value) == r

\* var.set_value(value) on the variable being resolved (the last one)
set_last_value(r, value) ==
    LET vs == r[Len(r)].vars
    IN  [r EXCEPT ![Len(r)].vars =
            [vs EXCEPT ![Len(vs)] = EnvVar_set_value(vs[Len(vs)], value)]]

\* ------------------------------------------------------------- dotenv
\* Printer.wrap_lines on the short one-line texts of this model.
wrap_lines(text) ==
    IF text = None \/ Strip(text) = "" THEN <<"">> ELSE <<text>>

NoName == <<>>
Line(kind, name, text) == [kind |-> kind, name |-> name, text |-> text]

CommentLines(text) ==
    [i \in 1..Len(wrap_lines(text)) |-> Line("comment", NoName, wrap_lines(text)[i])]

AssignmentLine(var) ==
    IF var.value # None THEN Line("assign", var.name, var.value)
    ELSE Line("bare", var.name, "")

\* EnvVar.get_dotenv_value of src/app/env_vars.py
get_dotenv_value(var) ==
    (IF var.description # None THEN CommentLines(var.description) ELSE <<>>)
        \o <<AssignmentLine(var)>>

\* DotenvBuilder._add_var of src/scripts/configuration/configure.py
DotenvBuilder_add_var(var) ==
    CommentLines(var.description) \o <<AssignmentLine(var)>>

SectionHeader(section) ==
    <<Line("separator", NoName, ""), Line("header", section.name, "")>>
        \o (IF section.description \notin {None, ""}
            THEN <<Line("comment", NoName, section.description)>> ELSE <<>>)
        \o <<Line("separator", NoName, "")>>

RECURSIVE app_vars_lines(_)
app_vars_lines(vs) ==
    IF vs = <<>> THEN <<>>
    ELSE get_dotenv_value(Head(vs)) \o app_vars_lines(Tail(vs))

\* A plausible slip: the variables of a section emitted last to first.
RECURSIVE cfg_vars_lines_reversed(_)
cfg_vars_lines_reversed(vs) ==
    IF vs = <<>> THEN <<>>
    ELSE cfg_vars_lines_reversed(Tail(vs)) \o DotenvBuilder_add_var(Head(vs))

\* DotenvBuilder.add_section: `for var in section.vars: self._add_var(var)`
RECURSIVE cfg_vars_lines(_)
cfg_vars_lines(vs) ==
    IF vs = <<>> THEN <<>>
    ELSE DotenvBuilder_add_var(Head(vs)) \o cfg_vars_lines(Tail(vs))

\* the body of main's `for section in schema.sections` (src/app/configure.py)
RECURSIVE app_main_lines(_)
app_main_lines(sections) ==
    IF sections = <<>> THEN <<>>
    ELSE SectionHeader(Head(sections)) \o app_vars_lines(Head(sections).vars)
            \o <<Line("blank", NoName, "")>> \o app_main_lines(Tail(sections))

\* DotenvBuilder.add_section over the sections, in order
RECURSIVE DotenvBuilder_add_sections(_)
DotenvBuilder_add_sections(sections) ==
    IF sections = <<>> THEN <<>>
    ELSE SectionHeader(Head(sections)) \o cfg_vars_lines(Head(sections).vars)
            \o <<Line("blank", NoName, "")>>
            \o DotenvBuilder_add_sections(Tail(sections))

\* "\n".join(lines).rstrip() + "\n": the trailing blank lines go.
RECURSIVE build(_)
build(lines) ==
    IF lines # <<>> /\ lines[Len(lines)].kind = "blank"
    THEN build(SubSeq(lines, 1, Len(lines) - 1))
    ELSE lines

\* OUTPUT_ENV_PATH before and after write_text(content)
NoFile == [exists |-> FALSE, lines |-> <<>>]
File(lines) == [exists |-> TRUE, lines |-> lines]

\* ------------------------------------------------------------------ Init
Init ==
    /\ variant \in {"app", "cfg"}
    /\ schema \in Schemas
    /\ environ \in {e \in SUBSET DeclaredNames(schema) : Cardinality(e) <= MaxEnv}
    /\ dirs = InitialDirs
    /\ pc = "start"
    /\ sec = 0
    /\ idx = 0
    /\ retries = 0
    /\ root = <<>>
    /\ console = <<>>
    /\ output = NoFile
    /\ written = 0
    /\ exitStatus = <<>>
    /\ error = None
    /\ unit = NoUnit

\* --------------------------------------------------------------- helpers
\* An exception leaves main: the interpreter prints it and exits with 1.
Abort(e) ==
    /\ pc' = "failed"
    /\ error' = e
    /\ exitStatus' = <<1>>

Event(ev, name, origin) == [ev |-> ev, name |-> name, origin |-> origin]

\* A plausible slip: the orchestrator catches the exception of one variable
\* and goes on with the next one.
Propagate_swallowed(out, r) ==
    /\ root' = r
    /\ pc' = "var"
    /\ idx' = idx + 1
    /\ retries' = 0
    /\ UNCHANGED <<console, error, exitStatus>>

\* Nothing between the strategy and the interpreter catches an exception:
\* it leaves parse_*, then main.
Propagate(out, r) ==
    /\ root' = r
    /\ Abort(out.error)
    /\ UNCHANGED <<console, idx, retries>>

\* What the orchestrator does with the outcome `out` of the strategy of the
\* variable `name`, the model being `r`: `value = ...; var.set_value(value)`
\* and on to the next variable; or the exception propagates; or the run
\* blocks in input().  set_value(None) is None.strip(): AttributeError.
Settle(out, r, name) ==
    /\ dirs' = out.dirs
    /\ CASE out.kind = "return" /\ out.value # None ->
              /\ root' = set_last_value(r, out.value)
              /\ console' = Append(console, Event("resolved", name, out.origin))
              /\ pc' = "var"
              /\ idx' = idx + 1
              /\ retries' = 0
              /\ UNCHANGED <<error, exitStatus>>
         [] out.kind = "return" /\ out.value = None ->
              /\ root' = r
              /\ Abort("AttributeError")
              /\ UNCHANGED <<console, idx, retries>>
         [] out.kind = "raise" -> Propagate(out, r)
         [] out.kind = "prompt" ->
              /\ pc = "prompt" => retries < MaxRetries
              /\ root' = r
              /\ pc' = "prompt"
              /\ console' = IF pc = "prompt" THEN console
                            ELSE Append(console, Event("prompt", name, None))
              /\ retries' = IF pc = "prompt" THEN retries + 1 ELSE 0
              /\ UNCHANGED <<idx, error, exitStatus>>
    /\ UNCHANGED <<inputs, sec, output, written>>

CurrentVar == LET vs == root[Len(root)].vars IN vs[Len(vs)]

\* ------------------------------------------------- src/app/configure.py
\* main: load_schema_raw, then parse_schema up to its loop over sections.
app_main ==
    /\ variant = "app"
    /\ pc = "start"
    /\ pc' = "section"
    /\ sec' = 1
    /\ UNCHANGED <<inputs, dirs, idx, retries, root, console, output, written,
                   exitStatus, error>>

\* parse_schema, one turn of `for section_name, section_val in obj.items()`
\* up to the loop over the section's variables.
app_parse_schema_section ==
    /\ variant = "app"
    /\ pc = "section"
    /\ IF sec > Len(schema)
       THEN /\ pc' = "build"
            /\ UNCHANGED <<root, console, idx>>
       ELSE LET section == EnvVarsSection(SectionFullName(Prefix, sec), Description)
            IN  /\ root' = add_section(root, section)
                /\ console' = Append(console, Event("section", section.name, None))
                /\ pc' = "var"
                /\ idx' = 1
    /\ UNCHANGED <<inputs, dirs, sec, retries, output, written, exitStatus, error>>

\* parse_schema, one turn of `for var_name, var_obj in section_vars.items()`:
\* validate the variable, append it, call get_value_for_type.
app_parse_schema_var ==
    /\ variant = "app"
    /\ pc = "var"
    /\ IF idx > Len(schema[sec])
       THEN /\ pc' = "section"
            /\ sec' = sec + 1
            /\ UNCHANGED <<inputs, dirs, idx, retries, root, console, output,
                           written, exitStatus, error>>
       ELSE LET decl == schema[sec][idx]
                var == app_EnvVar(VarFullName(root[Len(root)].name, idx),
                                  decl.type, Description, decl.value)
            IN  IF ~validate_string(decl.type)
                THEN /\ Abort("SchemaError")
                     /\ UNCHANGED <<inputs, dirs, sec, idx, retries, root, console,
                                    output, written>>
                ELSE Settle(get_value_for_type(var.type, var.value, dirs),
                            add_var(root, var), var.name)

\* The user types a line at the prompt of get_value_for_type.
app_input ==
    /\ variant = "app"
    /\ pc = "prompt"
    /\ \E line \in Lines :
          Settle(get_value_for_type_line(CurrentVar.type, line, dirs),
                 root, CurrentVar.name)

\* main after parse_schema: build the content and write it.
app_main_write ==
    /\ variant = "app"
    /\ pc = "build"
    /\ output' = File(build(app_main_lines(root)))
    /\ written' = written + 1
    /\ pc' = "done"
    /\ exitStatus' = <<0>>
    /\ UNCHANGED <<inputs, dirs, sec, idx, retries, root, console, error>>

\* ------------------------------ src/scripts/configuration/configure.py
\* The JSON schema accepts a configuration whose variables all have a
\* string "type" (ConfigVariable).
config_valid(sch) ==
    \A s \in 1..Len(sch) : \A k \in 1..Len(sch[s]) : sch[s][k].type # None

\* main: load_config_and_validate, then parse_config_and_get_user_input up
\* to its loop over sections.
cfg_main ==
    /\ variant = "cfg"
    /\ pc = "start"
    /\ IF config_valid(schema)
       THEN /\ pc' = "section"
            /\ sec' = 1
            /\ UNCHANGED <<error, exitStatus>>
       ELSE /\ Abort("SchemaError")
            /\ UNCHANGED sec
    /\ UNCHANGED <<inputs, dirs, idx, retries, root, console, output, written>>

\* parse_config_and_get_user_input, one turn of the loop over sections up
\* to the loop over the section's variables.
cfg_parse_config_section ==
    /\ variant = "cfg"
    /\ pc = "section"
    /\ IF sec > Len(schema)
       THEN /\ pc' = "build"
            /\ UNCHANGED <<root, console, idx>>
       ELSE LET section == EnvVarsSection(SectionFullName(Prefix, sec), Description)
            IN  /\ root' = add_section(root, section)
                /\ console' = Append(console, Event("section", section.name, None))
                /\ pc' = "var"
                /\ idx' = 1
    /\ UNCHANGED <<inputs, dirs, sec, retries, output, written, exitStatus, error>>

\* A plausible slip: the loop walks reversed(config_section["variables"]).
cfg_parse_config_var_reversed ==
    /\ variant = "cfg"
    /\ pc = "var"
    /\ IF idx > Len(schema[sec])
       THEN /\ pc' = "section"
            /\ sec' = sec + 1
            /\ UNCHANGED <<inputs, dirs, idx, retries, root, console, output,
                           written, exitStatus, error>>
       ELSE LET at == Len(schema[sec]) - idx + 1
                decl == schema[sec][at]
                var == cfg_EnvVar(VarFullName(root[Len(root)].name, at),
                                  decl.type, Description, decl.value)
            IN  Settle(acquire_value_for_var(var.name, var.type, var.value,
                                             environ, dirs),
                       add_var(root, var), var.name)

\* parse_config_and_get_user_input, one turn of the loop over variables:
\* append the variable, acquire its value.
cfg_parse_config_var ==
    /\ variant = "cfg"
    /\ pc = "var"
    /\ IF idx > Len(schema[sec])
       THEN /\ pc' = "section"
            /\ sec' = sec + 1
            /\ UNCHANGED <<inputs, dirs, idx, retries, root, console, output,
                           written, exitStatus, error>>
       ELSE LET decl == schema[sec][idx]
                var == cfg_EnvVar(VarFullName(root[Len(root)].name, idx),
                                  decl.type, Description, decl.value)
            IN  Settle(acquire_value_for_var(var.name, var.type, var.value,
                                             environ, dirs),
                       add_var(root, var), var.name)

\* The user types a line at the prompt of an interactive strategy.
cfg_input ==
    /\ variant = "cfg"
    /\ pc = "prompt"
    /\ \E line \in Lines :
          Settle(acquire_line(CurrentVar.type, line, dirs), root, CurrentVar.name)

\* main after parse_config_and_get_user_input: DotenvBuilder, write_text.
cfg_main_write ==
    /\ variant = "cfg"
    /\ pc = "build"
    /\ output' = File(build(DotenvBuilder_add_sections(root)))
    /\ written' = written + 1
    /\ pc' = "done"
    /\ exitStatus' = <<0>>
    /\ UNCHANGED <<inputs, dirs, sec, idx, retries, root, console, error>>

\* A plausible slip: _prompt reports the interrupt and the loop goes on.
KeyboardInterrupt_swallowed ==
    /\ pc = "prompt"
    /\ console' = Append(console, Event("aborted", NoName, None))
    /\ UNCHANGED <<inputs, dirs, pc, sec, idx, retries, root, output, written,
                   exitStatus, error>>

\* _prompt: KeyboardInterrupt during input() -> "Aborted by user.", sys.exit(0)
KeyboardInterrupt ==
    /\ pc = "prompt"
    /\ pc' = "exited"
    /\ exitStatus' = <<0>>
    /\ console' = Append(console, Event("aborted", NoName, None))
    /\ UNCHANGED <<inputs, dirs, sec, idx, retries, root, output, written, error>>

Next ==
    \/ app_main
    \/ app_parse_schema_section
    \/ app_parse_schema_var
    \/ app_input
    \/ app_main_write
    \/ cfg_main
    \/ cfg_parse_config_section
    \/ cfg_parse_config_var
    \/ cfg_input
    \/ cfg_main_write
    \/ KeyboardInterrupt

Spec == Init /\ [][Next]_vars

\* ----------------------------------------------------------------- claims
ConsoleIdx(ev) == {i \in DOMAIN console : console[i].ev = ev}
PromptedNames == {console[i].name : i \in ConsoleIdx("prompt")}
ResolvedNames == {console[i].name : i \in ConsoleIdx("resolved")}

\* C1: the output file is written at most once, and only after every
\* variable of every section has been resolved; a run that ends with an
\* exception (schema validation, unregistered type tag, a strategy raising)
\* or with an interrupt has written nothing.
C1_WrittenOnceAfterAllResolved ==
    /\ written <= 1
    /\ written = 1 =>
          /\ pc = "done"
          /\ error = None
          /\ output.exists
          /\ ResolvedNames = DeclaredNames(schema)
          /\ Len(root) = Len(schema)
          /\ \A s \in 1..Len(root) :
                /\ Len(root[s].vars) = Len(schema[s])
                /\ \A k \in 1..Len(root[s].vars) : root[s].vars[k].value # None
    /\ (error # None \/ pc \in {"failed", "exited"}) =>
          written = 0 /\ output = NoFile

C1_Witness ==
    /\ written = 1
    /\ Cardinality(DeclaredNames(schema)) >= 2
    /\ PromptedNames # {}

\* C2: a structural violation anywhere in the schema aborts the run before
\* the first prompt is issued for any variable.
C2_SchemaErrorBeforeAnyPrompt ==
    error = "SchemaError" => PromptedNames = {}

\* C3: a variable whose type tag is not registered aborts the run before
\* the user has been prompted for any variable, the offending one included.
C3_UnregisteredTypeBeforeAnyPrompt ==
    (error = "UnsupportedType" /\ ~TypeHandlerRegistry_get(CurrentVar.type))
        => PromptedNames = {}

\* C4: no line typed at the prompt of an IP, STRING or PATH variable aborts
\* the run: the run never fails while such a prompt is the last thing the
\* console shows.
C4_InteractiveInputNeverAborts ==
    ~ ( /\ pc = "failed"
        /\ console # <<>>
        /\ console[Len(console)].ev = "prompt"
        /\ CurrentVar.type \in InteractiveTypes )

\* C5: an interrupt at a prompt ends the process at once with status 0:
\* nothing follows "Aborted by user." on the console (no further prompt),
\* and no output file is written.
C5_InterruptExitsCleanly ==
    \A i \in ConsoleIdx("aborted") :
        /\ i = Len(console)
        /\ pc = "exited"
        /\ exitStatus = <<0>>
        /\ error = None
        /\ written = 0
        /\ output = NoFile

C5_Witness ==
    /\ ConsoleIdx("aborted") # {}
    /\ ResolvedNames # {}
    /\ retries > 0

\* The variables of the model, each with its declaration in the schema.
RootVars ==
    UNION {{[s |-> s, k |-> k, var |-> root[s].vars[k]] : k \in 1..Len(root[s].vars)}
            : s \in 1..Len(root)}
ResolvedVars == {v \in RootVars : v.var.name \in ResolvedNames}
DeclOf(v) == schema[v.s][v.k]

\* C6: every value the IP strategy returned is a valid IPv4 or IPv6 literal.
C6_IpValuesAreValid ==
    \A v \in ResolvedVars : v.var.type = "IP" => validate_ip(v.var.value)

\* What a line typed at the prompt of each interactive type can resolve to.
PromptValues(var_type) ==
    IF var_type = "PATH"
    THEN {Strip(PathResolve(Expanduser(prompt_line(l)))) : l \in Lines}
    ELSE {Strip(prompt_line(l)) : l \in Lines}

FromPrompt(v) ==
    /\ v.var.name \in PromptedNames
    /\ v.var.value \in PromptValues(v.var.type)

FromEnviron(v) ==
    /\ v.var.name \notin PromptedNames
    /\ v.var.value = Strip(EnvValue)

RECURSIVE DeclaredLayout(_, _)
DeclaredLayout(sch, s) ==
    IF s > Len(sch) THEN <<>>
    ELSE <<<<"section", SectionFullName(Prefix, s)>>>>
            \o [k \in 1..Len(sch[s]) |->
                    <<"variable", VarFullName(SectionFullName(Prefix, s), k)>>]
            \o DeclaredLayout(sch, s + 1)

\* The walk so far: the headers printed and the variables resolved.
IsWalkEvent(e) == e.ev \in {"section", "resolved"}
Walk(events) ==
    LET sel == SelectSeq(events, IsWalkEvent)
    IN  [i \in 1..Len(sel) |->
            <<IF sel[i].ev = "section" THEN "section" ELSE "variable", sel[i].name>>]

\* C8: variables are resolved one at a time in schema declaration order:
\* the headers printed and the variables resolved so far are, in order, a
\* prefix of the declaration order (so a variable is resolved after every
\* variable declared before it, before every variable declared after it,
\* and after its section's header), and a prompt is always for the next
\* variable in that order and is followed by nothing but its resolution.
C8_ResolvedInDeclarationOrder ==
    LET layout == DeclaredLayout(schema, 1)
        walk == Walk(console)
    IN  /\ Len(walk) <= Len(layout)
        /\ \A i \in 1..Len(walk) : walk[i] = layout[i]
        /\ \A i \in ConsoleIdx("prompt") :
              LET done == Len(Walk(SubSeq(console, 1, i - 1)))
              IN  /\ done < Len(layout)
                  /\ layout[done + 1] = <<"variable", console[i].name>>
                  /\ i < Len(console) =>
                        /\ console[i + 1].ev \in {"resolved", "aborted"}
                        /\ console[i + 1].ev = "resolved" =>
                              console[i + 1].name = console[i].name
        /\ pc = "prompt" => console[Len(console)].ev = "prompt"

C8_Witness ==
    /\ pc = "done"
    /\ \E m, n \in PromptedNames : m[2] # n[2]

\* The named lines of a document: section headers and assignments.
IsNamedLine(l) == l.kind \in {"header", "assign", "bare"}
NamedLines(lines) ==
    LET sel == SelectSeq(lines, IsNamedLine)
    IN  [i \in 1..Len(sel) |->
            <<IF sel[i].kind = "header" THEN "section" ELSE "variable", sel[i].name>>]

\* C9: in the generated document the sections appear in declaration order
\* and, under each section's header, its variables' assignment lines in
\* declaration order; every declared variable has exactly one assignment
\* line and there is no other assignment line.
C9_DocumentMirrorsSchemaOrder ==
    output.exists => NamedLines(output.lines) = DeclaredLayout(schema, 1)

C9_Witness ==
    /\ output.exists
    /\ \E s \in 1..Len(schema) : Len(schema[s]) >= 2
    /\ PromptedNames # {}

\* C10: no strategy ever returns null, CONSTANT with a null default
\* included, so set_value never receives None (it would raise
\* AttributeError).
C10_StrategiesNeverReturnNull ==
    error # "AttributeError"

\* The value EnvVar(...) holds before set_value.
ConstructedValue(decl) ==
    IF variant = "app" /\ decl.value # None THEN Strip(decl.value) ELSE decl.value

\* The value set_value stores for what the strategy returned from `origin`.
StoredFrom(origin, v) ==
    CASE origin = "schema"    -> v.var.value = Strip(DeclOf(v).value)
      [] origin = "generated" -> v.var.value = Secret
      [] origin = "env"       -> v.var.value = Strip(EnvValue)
      [] origin = "prompt"    -> v.var.value \in PromptValues(v.var.type)

\* C14: a variable holds the value the schema declares from the moment it
\* is appended to its section until its strategy has returned; it is then
\* overwritten, once, with the value the strategy resolved; nothing is
\* serialized before every variable has been overwritten, and what is
\* serialized is that value, so a GENERATED spec string such as 'ALPHA:32'
\* is never what the document holds.
C14_ValueOverwrittenOnceBeforeSerialization ==
    /\ \A v \in RootVars :
          LET at == {i \in ConsoleIdx("resolved") : console[i].name = v.var.name}
          IN  /\ Cardinality(at) <= 1
              /\ at = {} => v.var.value = ConstructedValue(DeclOf(v))
              /\ \A i \in at : StoredFrom(console[i].origin, v)
    /\ output.exists =>
          /\ \A v \in RootVars : v.var.name \in ResolvedNames
          /\ \A v \in RootVars :
                \E i \in DOMAIN output.lines :
                    /\ output.lines[i].kind = "assign"
                    /\ output.lines[i].name = v.var.name
                    /\ output.lines[i].text = v.var.value
                    /\ v.var.type = "GENERATED" =>
                          output.lines[i].text # DeclOf(v).value

C14_Witness ==
    /\ output.exists
    /\ \E v \in RootVars : v.var.type = "GENERATED"
    /\ \E v \in RootVars : v.var.name \in PromptedNames

\* ------------------------------------------- runs over other declarations
\* Schema variables whose type tag is written in another letter case, and
\* interactive variables that declare a default value.
EdgeVarDecls ==
    { [type |-> "ip",       value |-> None],
      [type |-> "IP",       value |-> None],
      [type |-> "Constant", value |-> " c "],
      [type |-> "CONSTANT", value |-> " c "],
      [type |-> "STRING",   value |-> " c "] }

EdgeSchemas ==
    UNION { {MakeSchema(sz, flat) : flat \in [1..SumSeq(sz) -> EdgeVarDecls]}
            : sz \in Layouts }

InitDecls ==
    /\ variant \in {"app", "cfg"}
    /\ schema \in EdgeSchemas
    /\ environ \in {e \in SUBSET DeclaredNames(schema) : Cardinality(e) <= MaxEnv}
    /\ dirs = InitialDirs
    /\ pc = "start"
    /\ sec = 0
    /\ idx = 0
    /\ retries = 0
    /\ root = <<>>
    /\ console = <<>>
    /\ output = NoFile
    /\ written = 0
    /\ exitStatus = <<>>
    /\ error = None
    /\ unit = NoUnit

\* The same run, over the schemas of EdgeSchemas.
SpecDecls == InitDecls /\ [][Next]_vars

\* C11: the lookup of a type tag ignores letter case: a variable whose tag
\* is a case variant of a registered tag ('ip', 'Constant') is never refused
\* as an unsupported type, and a 'Constant' resolves like a 'CONSTANT', to
\* its schema default and without a prompt.
C11_TypeLookupIgnoresCase ==
    /\ error = "UnsupportedType" => Upper(CurrentVar.type) \notin default_registry
    /\ \A v \in RootVars :
          Upper(v.var.type) = "CONSTANT" => v.var.name \notin PromptedNames

\* C15: the value a variable holds never has leading or trailing
\* whitespace, from its construction on: EnvVar(value=v) and set_value(v)
\* both store v stripped.
C15_StoredValueIsStripped ==
    \A v \in RootVars :
        v.var.value # None => v.var.value = Strip(v.var.value)

\* ------------------------------------------------- units on their own
\* The run's variables while a function or method is exercised on its own.
run == <<schema, environ, dirs, pc, sec, idx, retries, root, console, output,
         written, exitStatus, error>>

Idle ==
    /\ schema = <<>>
    /\ environ = {}
    /\ dirs = InitialDirs
    /\ pc = "unit"
    /\ sec = 0
    /\ idx = 0
    /\ retries = 0
    /\ root = <<>>
    /\ console = <<>>
    /\ output = NoFile
    /\ written = 0
    /\ exitStatus = <<>>
    /\ error = None

\* --------------------------------------------------- strings, by character
\* Where the characters of a string matter, the string is the sequence of
\* its characters; Null is Python's None where such a string is expected.
Null == <<None>>

Whitespace == {" ", "\n", "\t"}

RECURSIVE str_lstrip(_)
str_lstrip(s) ==
    IF s # <<>> /\ Head(s) \in Whitespace THEN str_lstrip(Tail(s)) ELSE s

RECURSIVE str_rstrip(_)
str_rstrip(s) ==
    IF s # <<>> /\ s[Len(s)] \in Whitespace
    THEN str_rstrip(SubSeq(s, 1, Len(s) - 1)) ELSE s

\* str.strip()
str_strip(s) == str_rstrip(str_lstrip(s))

\* string.ascii_lowercase, string.ascii_uppercase, string.digits
ascii_lowercase ==
    <<"a", "b", "c", "d", "e", "f", "g", "h", "i", "j", "k", "l", "m",
      "n", "o", "p", "q", "r", "s", "t", "u", "v", "w", "x", "y", "z">>
ascii_uppercase ==
    <<"A", "B", "C", "D", "E", "F", "G", "H", "I", "J", "K", "L", "M",
      "N", "O", "P", "Q", "R", "S", "T", "U", "V", "W", "X", "Y", "Z">>
digits == <<"0", "1", "2", "3", "4", "5", "6", "7", "8", "9">>
ascii_letters == ascii_lowercase \o ascii_uppercase

Chars(s) == {s[i] : i \in DOMAIN s}
IndexOf(s, c) == CHOOSE i \in DOMAIN s : s[i] = c

\* str.upper()
str_upper(s) ==
    [i \in DOMAIN s |->
        IF s[i] \in Chars(ascii_lowercase)
        THEN ascii_uppercase[IndexOf(ascii_lowercase, s[i])] ELSE s[i]]

\* str.split(":", 1)
str_split_colon(s) ==
    IF ":" \notin Chars(s) THEN <<s>>
    ELSE LET at == CHOOSE i \in DOMAIN s :
                      s[i] = ":" /\ \A j \in 1..(i - 1) : s[j] # ":"
         IN  <<SubSeq(s, 1, at - 1), SubSeq(s, at + 1, Len(s))>>

RECURSIVE digits_value(_)
digits_value(s) ==
    IF s = <<>> THEN 0
    ELSE 10 * digits_value(SubSeq(s, 1, Len(s) - 1))
            + (IndexOf(digits, s[Len(s)]) - 1)

\* int(s) on a string of signs, digits, letters and blanks: an optional
\* sign and at least one digit, blanks around them ignored; ok = FALSE is
\* the ValueError.
int_parse(s) ==
    LET t == str_strip(s)
        signed == t # <<>> /\ Head(t) \in {"+", "-"}
        body == IF signed THEN Tail(t) ELSE t
    IN  IF body # <<>> /\ Chars(body) \subseteq Chars(digits)
        THEN [ok |-> TRUE,
              value |-> IF signed /\ Head(t) = "-" THEN 0 - digits_value(body)
                        ELSE digits_value(body)]
        ELSE [ok |-> FALSE, value |-> 0]

\* Validator.validate_string on such a string: raises unless this holds.
validate_str(value) == value # Null /\ str_strip(value) # <<>>

\* ------------------------------------------------ the GENERATED strategy
\* GeneratedStrategy.acquire of src/scripts/configuration/env_vars.py and the
\* GENERATED case of get_value_for_type of src/app/env_vars.py, with the
\* generation spec parsed character by character.
DefaultLength == 32
MaxLength == 1024

ALL == <<"A", "L", "L">>
ALPHA == <<"A", "L", "P", "H", "A">>
punctuation == <<"%", "&", "*", "+", "-", ".", ":", "<", ">", "^", "_", "|", "~">>

\* _charset_pools
charset_pools(name) ==
    IF name = ALL THEN ascii_letters \o digits \o punctuation
    ELSE ascii_letters \o digits

\* charset_name, length after the except clause; logged: the except clause ran
Parsed(charset_name, length) ==
    [charset_name |-> charset_name, length |-> length, logged |-> FALSE]
Defaulting == [charset_name |-> ALPHA, length |-> DefaultLength, logged |-> TRUE]

\* A plausible slip: the upper limit taken as exclusive.
generation_spec_exclusive(default_spec) ==
    LET parts == str_split_colon(default_spec)
        raw_set == str_upper(str_strip(parts[1]))
        parsed_len == int_parse(str_strip(parts[2]))
    IN  IF ~validate_str(default_spec) THEN Defaulting
        ELSE IF Len(parts) # 2 THEN Defaulting
        ELSE IF raw_set \notin {ALL, ALPHA} THEN Defaulting
        ELSE IF ~parsed_len.ok THEN Defaulting
        ELSE IF parsed_len.value <= 0 \/ parsed_len.value >= MaxLength
             THEN Defaulting
        ELSE Parsed(raw_set, parsed_len.value)

\* A plausible slip: charset_name and length assigned as soon as they are
\* parsed, before the range check that raises.
generation_spec_unguarded(default_spec) ==
    LET parts == str_split_colon(default_spec)
        raw_set == str_upper(str_strip(parts[1]))
        parsed_len == int_parse(str_strip(parts[2]))
    IN  IF ~validate_str(default_spec) THEN Defaulting
        ELSE IF Len(parts) # 2 THEN Defaulting
        ELSE IF raw_set \notin {ALL, ALPHA} THEN Defaulting
        ELSE IF ~parsed_len.ok THEN Defaulting
        ELSE IF parsed_len.value <= 0 \/ parsed_len.value > MaxLength
             THEN [Parsed(raw_set, parsed_len.value) EXCEPT !.logged = TRUE]
        ELSE Parsed(raw_set, parsed_len.value)

\* The try block: every raise in it (validate_string, the three ValueErrors,
\* int()) is caught by `except Exception`, which logs and keeps ALPHA:32.
generation_spec(default_spec) ==
    LET parts == str_split_colon(default_spec)
        raw_set == str_upper(str_strip(parts[1]))
        parsed_len == int_parse(str_strip(parts[2]))
    IN  IF ~validate_str(default_spec) THEN Defaulting
        ELSE IF Len(parts) # 2 THEN Defaulting
        ELSE IF raw_set \notin {ALL, ALPHA} THEN Defaulting
        ELSE IF ~parsed_len.ok THEN Defaulting
        ELSE IF parsed_len.value <= 0 \/ parsed_len.value > MaxLength
             THEN Defaulting
        ELSE Parsed(raw_set, parsed_len.value)

\* What a call came to.  A returned string is known by its length and by
\* one of its characters, any of them: `char` ranges over all it can hold.
Pending == [kind |-> "pending"]
Returned(origin, length, char, logged) ==
    [kind |-> "return", origin |-> origin, length |-> length, char |-> char,
     logged |-> logged]

\* "".join(secrets.choice(pool) for _ in range(length))
generated(spec) ==
    {Returned("generated", spec.length, c, spec.logged)
        : c \in Chars(charset_pools(spec.charset_name))}

\* return os.environ[var_name]
environ_value(v) == {Returned("env", Len(v), c, FALSE) : c \in Chars(v)}

\* os.environ.get(var_name) is truthy: set, and not the empty string
environ_truthy(v) == v # Null /\ v # <<>>

\* GeneratedStrategy.acquire
GeneratedStrategy_acquire_spec(env_value, default_spec) ==
    IF environ_truthy(env_value) THEN environ_value(env_value)
    ELSE generated(generation_spec(default_spec))

\* get_value_for_type, case "GENERATED"
get_value_for_type_GENERATED(var_value) ==
    generated(generation_spec(var_value))

\* The generation specs tried: a charset, a separator and a length, each
\* written as it may stand in a schema, with what it asks for.
CharsetTexts ==
    { [text |-> ALPHA, pool |-> "ALPHA"],
      [text |-> ALL, pool |-> "ALL"],
      [text |-> <<"a", "l", "p", "h", "a">>, pool |-> "ALPHA"],
      [text |-> <<" ", "A", "l", "l", " ">>, pool |-> "ALL"],
      [text |-> <<"B", "O", "G", "U", "S">>, pool |-> None],
      [text |-> <<>>, pool |-> None] }

LengthTexts ==
    { [text |-> <<"1">>, n |-> 1, ok |-> TRUE],
      [text |-> <<"3", "2">>, n |-> 32, ok |-> TRUE],
      [text |-> <<"1", "0", "2", "4">>, n |-> 1024, ok |-> TRUE],
      [text |-> <<" ", "7", " ">>, n |-> 7, ok |-> TRUE],
      [text |-> <<"+", "5">>, n |-> 5, ok |-> TRUE],
      [text |-> <<"0">>, n |-> 0, ok |-> FALSE],
      [text |-> <<"-", "1">>, n |-> 0 - 1, ok |-> FALSE],
      [text |-> <<"1", "0", "2", "5">>, n |-> 1025, ok |-> FALSE],
      [text |-> <<"9", "9", "9", "9">>, n |-> 9999, ok |-> FALSE],
      [text |-> <<"x">>, n |-> 0, ok |-> FALSE],
      [text |-> <<"1", "0", ":", "3">>, n |-> 0, ok |-> FALSE],
      [text |-> <<>>, n |-> 0, ok |-> FALSE] }

GenerationSpecs ==
    { [text |-> Null, valid |-> FALSE, pool |-> None, length |-> 0] }
    \cup { [text |-> c.text \o sep \o l.text,
            valid |-> sep = <<":">> /\ c.pool # None /\ l.ok,
            pool |-> c.pool, length |-> l.n]
           : c \in CharsetTexts, sep \in {<<":">>, <<>>}, l \in LengthTexts }

\* os.environ[var_name]: unset, empty, or a value of an earlier setup
EnvValues == {Null, <<>>, <<"o", "l", "d", "!">>}

InitGenerated ==
    /\ variant \in {"app", "cfg"}
    /\ Idle
    /\ unit \in {[spec |-> g, env |-> e, out |-> Pending]
                    : g \in GenerationSpecs, e \in EnvValues}

call_GeneratedStrategy_acquire ==
    /\ variant = "cfg"
    /\ unit.out = Pending
    /\ \E o \in GeneratedStrategy_acquire_spec(unit.env, unit.spec.text) :
          unit' = [unit EXCEPT !.out = o]
    /\ UNCHANGED <<variant, run>>

call_get_value_for_type_GENERATED ==
    /\ variant = "app"
    /\ unit.out = Pending
    /\ \E o \in get_value_for_type_GENERATED(unit.spec.text) :
          unit' = [unit EXCEPT !.out = o]
    /\ UNCHANGED <<variant, run>>

NextGenerated ==
    \/ call_GeneratedStrategy_acquire
    \/ call_get_value_for_type_GENERATED

SpecGenerated == InitGenerated /\ [][NextGenerated]_vars

\* The pools as the specification words them.
IsAlpha(c) == c \in Chars(ascii_letters) \cup Chars(digits)
InPool(c, pool) ==
    IF pool = "ALL" THEN IsAlpha(c) \/ c \in Chars(punctuation) ELSE IsAlpha(c)

AsRequested(u) ==
    /\ u.out.origin = "generated"
    /\ u.out.length = u.spec.length
    /\ InPool(u.out.char, u.spec.pool)

FromEnvironment(u) ==
    /\ u.out.origin = "env"
    /\ u.out.length = Len(u.env)
    /\ u.out.char \in Chars(u.env)

\* C12 as claimed: for every valid spec and every state of the environment
\* the value returned has the requested LENGTH and only characters of the
\* requested pool.
C12_GeneratedAsRequested ==
    (unit.out.kind = "return" /\ unit.spec.valid) => AsRequested(unit)

\* C12 as amended: for every valid spec the value has the requested LENGTH
\* (1..1024) and only characters of the requested pool whenever the
\* strategy generates it; GeneratedStrategy.acquire does not generate when
\* the environment holds a non-empty value under the variable's name, and
\* then returns that value as it is.
C12_GeneratedAsRequestedUnlessSet ==
    (unit.out.kind = "return" /\ unit.spec.valid) =>
        IF variant = "cfg" /\ environ_truthy(unit.env)
        THEN FromEnvironment(unit)
        ELSE /\ AsRequested(unit)
             /\ unit.spec.length \in 1..MaxLength
             /\ ~unit.out.logged

C12_Witness ==
    /\ unit.out.kind = "return"
    /\ unit.out.origin = "generated"
    /\ unit.spec.valid
    /\ unit.spec.length = MaxLength
    /\ unit.spec.pool = "ALL"
    /\ unit.out.char = "~"

Fallback(u) ==
    /\ u.out.origin = "generated"
    /\ u.out.logged
    /\ u.out.length = 32
    /\ IsAlpha(u.out.char)

\* C13 as claimed: a malformed spec never makes the call raise; the
\* strategy logs a message and returns 32 characters of the ALPHA pool.
C13_MalformedSpecFallsBack ==
    /\ unit.out.kind \in {"pending", "return"}
    /\ (unit.out.kind = "return" /\ ~unit.spec.valid) => Fallback(unit)

\* C13 as amended: a malformed spec never makes the call raise; when the
\* strategy comes to parse it, it logs a message and returns 32 characters
\* of the ALPHA pool; GeneratedStrategy.acquire does not parse the spec when
\* the environment holds a non-empty value under the variable's name, and
\* then returns that value, logging nothing.
C13_MalformedSpecFallsBackUnlessSet ==
    /\ unit.out.kind \in {"pending", "return"}
    /\ (unit.out.kind = "return" /\ ~unit.spec.valid) =>
           IF variant = "cfg" /\ environ_truthy(unit.env)
           THEN FromEnvironment(unit) /\ ~unit.out.logged
           ELSE Fallback(unit)

C13_Witness ==
    /\ unit.out.kind = "return"
    /\ unit.out.logged
    /\ unit.spec.length = 1025
    /\ unit.spec.pool = "ALL"
    /\ variant = "cfg"

\* --------------------------------------------- the printer, by character
Width == 120

\* "\n".join(lines)
RECURSIVE str_join(_)
str_join(lines) ==
    IF lines = <<>> THEN <<>>
    ELSE IF Len(lines) = 1 THEN lines[1]
    ELSE lines[1] \o <<"\n">> \o str_join(Tail(lines))

FirstIndex(s, c) == CHOOSE i \in DOMAIN s : s[i] = c /\ \A j \in 1..(i - 1) : s[j] # c

\* str.splitlines(), the line breaks being "\n"
RECURSIVE str_splitlines(_)
str_splitlines(s) ==
    IF s = <<>> THEN <<>>
    ELSE IF "\n" \notin Chars(s) THEN <<s>>
    ELSE <<SubSeq(s, 1, FirstIndex(s, "\n") - 1)>>
            \o str_splitlines(SubSeq(s, FirstIndex(s, "\n") + 1, Len(s)))

RECURSIVE Concat(_)
Concat(ss) == IF ss = <<>> THEN <<>> ELSE Head(ss) \o Concat(Tail(ss))

\* TextWrapper._split on a text without hyphens: the maximal runs of
\* whitespace and of other characters, in order.
RECURSIVE textwrap_split(_)
textwrap_split(s) ==
    IF s = <<>> THEN <<>>
    ELSE LET same(i) == (s[i] \in Whitespace) = (s[1] \in Whitespace)
             n == CHOOSE m \in 1..Len(s) :
                      /\ \A i \in 1..m : same(i)
                      /\ m = Len(s) \/ ~same(m + 1)
         IN  <<SubSeq(s, 1, n)>> \o textwrap_split(SubSeq(s, n + 1, Len(s)))

\* how many leading chunks fit in `room` characters
RECURSIVE Fit(_, _)
Fit(chunks, room) ==
    IF chunks # <<>> /\ Len(Head(chunks)) <= room
    THEN 1 + Fit(Tail(chunks), room - Len(Head(chunks)))
    ELSE 0

\* TextWrapper._wrap_chunks with drop_whitespace=False, break_long_words=True:
\* a line takes the chunks that fit; a chunk longer than the width is cut
\* (_handle_long_word) to fill what is left of the line.
RECURSIVE textwrap_wrap_chunks(_, _)
textwrap_wrap_chunks(chunks, width) ==
    IF chunks = <<>> THEN <<>>
    ELSE LET k == Fit(chunks, width)
             fitted == Concat(SubSeq(chunks, 1, k))
             rest == SubSeq(chunks, k + 1, Len(chunks))
             long == rest # <<>> /\ Len(Head(rest)) > width
             space_left == width - Len(fitted)
             cur_line == IF long THEN fitted \o SubSeq(Head(rest), 1, space_left)
                         ELSE fitted
             left == IF long
                     THEN <<SubSeq(Head(rest), space_left + 1, Len(Head(rest)))>>
                             \o Tail(rest)
                     ELSE rest
         IN  <<cur_line>> \o textwrap_wrap_chunks(left, width)

Spaces(n) == [i \in 1..n |-> " "]

\* str.expandtabs(8) from column col, as TextWrapper._munge_whitespace
\* applies it (expand_tabs is left True)
RECURSIVE str_expandtabs(_, _)
str_expandtabs(s, col) ==
    IF s = <<>> THEN <<>>
    ELSE IF Head(s) = "\t"
    THEN Spaces(8 - (col % 8)) \o str_expandtabs(Tail(s), 0)
    ELSE <<Head(s)>>
           \o str_expandtabs(Tail(s), IF Head(s) = "\n" THEN 0 ELSE col + 1)

\* A plausible slip: drop_whitespace left at its default, the whitespace at
\* the ends of a line dropped.
textwrap_wrap_drop_whitespace(paragraph, width) ==
    [i \in DOMAIN textwrap_wrap_chunks(
                      textwrap_split(str_expandtabs(paragraph, 0)), width) |->
        str_strip(textwrap_wrap_chunks(
                      textwrap_split(str_expandtabs(paragraph, 0)), width)[i])]

\* textwrap.wrap(paragraph, width, replace_whitespace=False, drop_whitespace=False)
textwrap_wrap(paragraph, width) ==
    textwrap_wrap_chunks(textwrap_split(str_expandtabs(paragraph, 0)), width)

RECURSIVE wrap_paragraphs(_, _)
wrap_paragraphs(paragraphs, width) ==
    IF paragraphs = <<>> THEN <<>>
    ELSE (IF Head(paragraphs) = <<>> \/ textwrap_wrap(Head(paragraphs), width) = <<>>
          THEN << <<>> >>
          ELSE textwrap_wrap(Head(paragraphs), width))
         \o wrap_paragraphs(Tail(paragraphs), width)

\* A plausible slip: the test for a blank text left out.
Printer_wrap_lines_unguarded(text, width) ==
    IF text = Null THEN << <<>> >>
    ELSE wrap_paragraphs(str_splitlines(text), width)

\* Printer.wrap_lines
Printer_wrap_lines(text, width) ==
    IF text = Null \/ str_strip(text) = <<>> THEN << <<>> >>
    ELSE wrap_paragraphs(str_splitlines(text), width)

\* A plausible slip: the backslash escaped as well.
RECURSIVE escape_quotes_and_backslashes(_)
escape_quotes_and_backslashes(s) ==
    IF s = <<>> THEN <<>>
    ELSE (IF Head(s) \in {"\"", "\\"} THEN <<"\\", Head(s)>> ELSE <<Head(s)>>)
            \o escape_quotes_and_backslashes(Tail(s))

\* value_str.replace('"', r'\"')
RECURSIVE escape_quotes(_)
escape_quotes(s) ==
    IF s = <<>> THEN <<>>
    ELSE (IF Head(s) = "\"" THEN <<"\\", "\"">> ELSE <<Head(s)>>)
            \o escape_quotes(Tail(s))

\* Printer.format_dotenv_key_value; ok = FALSE is validate_string's ValueError
format_dotenv_key_value(key, value) ==
    IF ~validate_str(key) THEN [ok |-> FALSE, text |-> <<>>]
    ELSE [ok |-> TRUE,
          text |-> str_strip(key) \o <<"=", "\"">>
                     \o escape_quotes(IF value = Null THEN <<>> ELSE value)
                     \o <<"\"">>]

\* ------------------------------------------- serialization, by character
\* f"# {line}"
Comment(line) == <<"#", " ">> \o line

\* A plausible slip: `if self.value:` for `if self.value is not None:`.
assignment_truthy(var) ==
    IF var.value # Null /\ var.value # <<>>
    THEN format_dotenv_key_value(var.name, var.value).text
    ELSE var.name \o <<"=">>

\* the assignment line, the same statements in get_dotenv_value and _add_var
assignment(var) ==
    IF var.value # Null THEN format_dotenv_key_value(var.name, var.value).text
    ELSE var.name \o <<"=">>

\* EnvVar.get_dotenv_value of src/app/env_vars.py: its `parts`
EnvVar_get_dotenv_value(var) ==
    (IF var.description # Null
     THEN [i \in DOMAIN Printer_wrap_lines(var.description, Width) |->
              Comment(Printer_wrap_lines(var.description, Width)[i])]
     ELSE <<>>)
    \o <<assignment(var)>>

\* DotenvBuilder._add_var of src/scripts/configuration/configure.py: the
\* lines it appends
DotenvBuilder__add_var(var) ==
    [i \in DOMAIN Printer_wrap_lines(var.description, Width) |->
        Comment(Printer_wrap_lines(var.description, Width)[i])]
    \o <<assignment(var)>>

\* "#" * 120
separator == [i \in 1..Width |-> "#"]

\* The header DotenvBuilder.add_section appends (the same four statements
\* are in main of src/app/configure.py).
add_section_header(section) ==
    <<separator, Comment(section.name)>>
    \o (IF section.description \notin {Null, <<>>}
        THEN <<Comment(section.description)>> ELSE <<>>)
    \o <<separator>>

\* EnvVar(...): __init__ of src/app/env_vars.py strips a string value, the
\* dataclass of src/scripts/configuration/env_vars.py stores it as given.
EnvVar(impl, name, description, value) ==
    [name |-> name, description |-> description,
     value |-> IF impl = "app" /\ value # Null THEN str_strip(value) ELSE value]

\* The values, descriptions and names tried.
MaxValueLen == 2
ValueChars == {"\"", "\\", "\n", "a", " "}
Values == UNION {[1..n -> ValueChars] : n \in 0..MaxValueLen}
Descriptions == {Null, <<>>, <<"d">>, <<"a", "\n", "b">>}
SectionName == <<"P", "_", "S">>
VarName == SectionName \o <<"_", "K">>

InitDotenv ==
    /\ variant \in {"app", "cfg"}
    /\ Idle
    /\ \E description \in Descriptions, value \in Values \cup {Null} :
          unit = [stage |-> "new", set |-> FALSE,
                  var |-> EnvVar(variant, VarName, description, value),
                  parts |-> <<>>]

\* var.set_value(value): self.value = value.strip(); None has no strip.
call_set_value ==
    /\ unit.stage = "new"
    /\ ~unit.set
    /\ \E value \in Values \cup {Null} :
          unit' = IF value = Null
                  THEN [unit EXCEPT !.stage = "AttributeError"]
                  ELSE [unit EXCEPT !.set = TRUE, !.var.value = str_strip(value)]
    /\ UNCHANGED <<variant, run>>

call_get_dotenv_value ==
    /\ variant = "app"
    /\ unit.stage = "new"
    /\ unit' = [unit EXCEPT !.stage = "serialized",
                            !.parts = EnvVar_get_dotenv_value(unit.var)]
    /\ UNCHANGED <<variant, run>>

call_add_var ==
    /\ variant = "cfg"
    /\ unit.stage = "new"
    /\ unit' = [unit EXCEPT !.stage = "serialized",
                            !.parts = DotenvBuilder__add_var(unit.var)]
    /\ UNCHANGED <<variant, run>>

\* Printer.format_dotenv_key_value(key=var.name, value=var.value)
call_format_dotenv_key_value ==
    /\ unit.stage = "new"
    /\ unit' = [unit EXCEPT !.stage = "formatted",
                   !.parts = <<format_dotenv_key_value(unit.var.name,
                                                        unit.var.value).text>>]
    /\ UNCHANGED <<variant, run>>

\* the header of a section that has the variable's description
call_add_section ==
    /\ unit.stage = "new"
    /\ ~unit.set
    /\ unit' = [unit EXCEPT !.stage = "header",
                   !.parts = add_section_header(
                       [name |-> SectionName,
                        description |-> unit.var.description])]
    /\ UNCHANGED <<variant, run>>

NextDotenv ==
    \/ call_set_value
    \/ call_get_dotenv_value
    \/ call_add_var
    \/ call_format_dotenv_key_value
    \/ call_add_section

SpecDotenv == InitDotenv /\ [][NextDotenv]_vars

StartsWith(s, prefix) ==
    Len(s) >= Len(prefix) /\ SubSeq(s, 1, Len(prefix)) = prefix

\* What a dotenv reader makes of a quoted body: \" stands for ".
RECURSIVE Unescape(_)
Unescape(b) ==
    IF b = <<>> THEN <<>>
    ELSE IF Len(b) >= 2 /\ b[1] = "\\" /\ b[2] = "\""
         THEN <<"\"">> \o Unescape(SubSeq(b, 3, Len(b)))
         ELSE <<b[1]>> \o Unescape(Tail(b))

\* key="body": the body of such a line
Body(line, key) == SubSeq(line, Len(key) + 3, Len(line) - 1)
IsQuotedAssignment(line, key) ==
    /\ Len(line) >= Len(key) + 3
    /\ StartsWith(line, key \o <<"=", "\"">>)
    /\ line[Len(line)] = "\""

\* C16: a variable whose value is a string, the empty string included,
\* serializes its assignment as NAME="escaped-value"; a variable whose
\* value is None serializes it as the bare NAME=; never the other way round.
C16_QuotedIffValuePresent ==
    unit.stage = "serialized" =>
        LET line == unit.parts[Len(unit.parts)]
        IN  IF unit.var.value = Null
            THEN line = unit.var.name \o <<"=">>
            ELSE /\ IsQuotedAssignment(line, unit.var.name)
                 /\ Unescape(Body(line, unit.var.name)) = unit.var.value

C16_Witness ==
    /\ unit.stage = "serialized"
    /\ unit.set
    /\ unit.var.value = <<>>
    /\ unit.var.description = Null

\* C17: a variable with no description and no value, never set or set with
\* set_value(None), serializes as the single line NAME=; comment lines are
\* emitted only for a description that is present, one "# " line for each
\* line of the wrapped description.
C17_NoDescriptionNoComment ==
    /\ unit.stage # "AttributeError"
    /\ unit.stage = "serialized" =>
          LET wrapped == Printer_wrap_lines(unit.var.description, Width)
              comments == SubSeq(unit.parts, 1, Len(unit.parts) - 1)
          IN  /\ unit.var.description = Null => comments = <<>>
              /\ unit.var.description # Null =>
                    comments = [i \in DOMAIN wrapped |-> <<"#", " ">> \o wrapped[i]]
              /\ (unit.var.description = Null /\ unit.var.value = Null) =>
                    unit.parts = <<unit.var.name \o <<"=">>>>

\* C18: format_dotenv_key_value escapes the double quote and nothing else:
\* between the enclosing quotes stands the value with \" for each ", every
\* other character (backslash, newline) unchanged and in place.
C18_OnlyDoubleQuoteEscaped ==
    unit.stage = "formatted" =>
        LET line == unit.parts[1]
            value == IF unit.var.value = Null THEN <<>> ELSE unit.var.value
            body == Body(line, unit.var.name)
            quotes == {i \in DOMAIN value : value[i] = "\""}
        IN  /\ IsQuotedAssignment(line, unit.var.name)
            /\ Unescape(body) = value
            /\ Len(body) = Len(value) + Cardinality(quotes)
            /\ \A i \in DOMAIN body :
                  body[i] = "\"" => (i > 1 /\ body[i - 1] = "\\")

C18_Witness ==
    /\ unit.stage = "formatted"
    /\ unit.var.value = <<"\\", "\"">>

\* The lines of a file whose content is `text`.
RECURSIVE FileLines(_)
FileLines(text) ==
    IF "\n" \notin Chars(text) THEN <<text>>
    ELSE <<SubSeq(text, 1, FirstIndex(text, "\n") - 1)>>
            \o FileLines(SubSeq(text, FirstIndex(text, "\n") + 1, Len(text)))

\* C19: the header of a section is, line by line: 120 '#', '# <full name>',
\* the description wrapped at the width with '# ' before each line (nothing
\* when there is no description), 120 '#'; so every line of it starts with
\* '#' and exactly two of them are separators.
C19_SectionHeaderBlock ==
    unit.stage = "header" =>
        LET lines == FileLines(str_join(unit.parts))
            wrapped == Printer_wrap_lines(unit.var.description, Width)
            described == IF unit.var.description \in {Null, <<>>} THEN <<>>
                         ELSE [i \in DOMAIN wrapped |-> <<"#", " ">> \o wrapped[i]]
        IN  /\ lines = <<separator, <<"#", " ">> \o SectionName>>
                          \o described \o <<separator>>
            /\ \A i \in DOMAIN lines : lines[i] # <<>> /\ lines[i][1] = "#"
            /\ Cardinality({i \in DOMAIN lines : lines[i] = separator}) = 2

\* ------------------------------------------------ the names of a run
\* The walk of parse_config_and_get_user_input (and of both parse_schema)
\* as far as names go: a section is named f"{prefix}_{name}", a variable
\* f"{section.name}_{name}".  The resolution of values is left out: a name
\* is fixed when its EnvVar is constructed.
MaxNameSections == 2
MaxNameVars == 2

\* the names a schema may give its sections and its variables
SectionNames == {<<"A">>, <<"A", "_", "B">>}
VariableNames == {<<"C">>, <<"B", "_", "C">>}
prefix == <<"P">>

IsInjective(f) == \A i, j \in DOMAIN f : f[i] = f[j] => i = j

ConfigSections ==
    {[name |-> n, variables |-> vs]
        : n \in SectionNames, vs \in SeqsUpTo(VariableNames, MaxNameVars)}

\* A legacy-shape schema is a JSON object of objects: its section names
\* are distinct, and so are the variable names of one section.  The
\* proposed shape holds arrays, which may repeat a name.
Configs(impl) ==
    {c \in SeqsUpTo(ConfigSections, MaxNameSections) :
        impl = "app" =>
            /\ IsInjective([i \in DOMAIN c |-> c[i].name])
            /\ \A i \in DOMAIN c : IsInjective(c[i].variables)}

InitNames ==
    /\ variant \in {"app", "cfg"}
    /\ Idle
    /\ \E c \in Configs(variant) :
          unit = [config |-> c, sections |-> <<>>, stage |-> "walking"]

\* the section being walked: the last one appended
walked == unit.sections[Len(unit.sections)]

\* one turn of the loop over sections: EnvVarsSection(name=section_full_name)
names_add_section ==
    /\ unit.stage = "walking"
    /\ IF unit.sections = <<>> THEN TRUE
       ELSE Len(walked.vars) = Len(unit.config[Len(unit.sections)].variables)
    /\ unit' =
          IF Len(unit.sections) = Len(unit.config)
          THEN [unit EXCEPT !.stage = "walked"]
          ELSE [unit EXCEPT !.sections = Append(@,
                   [name |-> prefix \o <<"_">>
                                \o unit.config[Len(unit.sections) + 1].name,
                    vars |-> <<>>])]
    /\ UNCHANGED <<variant, run>>

\* one turn of the loop over variables: EnvVar(name=f"{section.name}_{name}")
names_add_var ==
    /\ unit.stage = "walking"
    /\ unit.sections # <<>>
    /\ Len(walked.vars) < Len(unit.config[Len(unit.sections)].variables)
    /\ unit' = [unit EXCEPT !.sections[Len(unit.sections)].vars = Append(@,
                   walked.name \o <<"_">>
                     \o unit.config[Len(unit.sections)].variables[Len(walked.vars) + 1])]
    /\ UNCHANGED <<variant, run>>

NextNames ==
    \/ names_add_section
    \/ names_add_var

SpecNames == InitNames /\ [][NextNames]_vars

\* C20: no two variables of a run, in the same section or in different
\* ones, have the same composed name <prefix>_<section_name>_<variable_name>.
C20_VariableNamesAreUnique ==
    \A s, t \in DOMAIN unit.sections :
        \A k \in DOMAIN unit.sections[s].vars :
            \A m \in DOMAIN unit.sections[t].vars :
                unit.sections[s].vars[k] = unit.sections[t].vars[m]
                    => (s = t /\ k = m)

\* ------------------------------------------------ src/scripts/configure.py
\* What json.load returns: a str, None, a number, a dict (its pairs in
\* insertion order) or a list.
JStr(s) == [t |-> "str", v |-> s]
JNull == [t |-> "null"]
JNum == [t |-> "num"]
JObj(pairs) == [t |-> "obj", v |-> pairs]
JArr(items) == [t |-> "arr", v |-> items]

\* key in obj
dict_has(obj, key) == \E i \in DOMAIN obj.v : obj.v[i][1] = key

\* obj.get(key, default), obj.get(key) being obj.get(key, None)
dict_get_default(obj, key, default) ==
    IF dict_has(obj, key)
    THEN obj.v[CHOOSE i \in DOMAIN obj.v : obj.v[i][1] = key][2]
    ELSE default
dict_get(obj, key) == dict_get_default(obj, key, JNull)

\* Validator.validate_string, validate_string_or_none, validate_dict: TRUE
\* when the value passes, FALSE when ValueError is raised
Validator_validate_string(value) ==
    value.t = "str" /\ str_strip(value.v) # <<>>
Validator_validate_string_or_none(value) == value.t \in {"null", "str"}
Validator_validate_dict(value) == value.t = "obj"

\* a str or None of json.load as the strings by character have it
PyStr(value) == IF value.t = "str" THEN value.v ELSE Null

\* the keys of the two shapes
K_prefix == <<"p", "r", "e", "f", "i", "x">>
K_sections == <<"s", "e", "c", "t", "i", "o", "n", "s">>
K_name == <<"n", "a", "m", "e">>
K_description == <<"d", "e", "s", "c", "r", "i", "p", "t", "i", "o", "n">>
K_variables == <<"v", "a", "r", "i", "a", "b", "l", "e", "s">>
K_type == <<"t", "y", "p", "e">>
K_value == <<"v", "a", "l", "u", "e">>

\* RawVar and RawSection
RawVar(name, type, description, value) ==
    [name |-> name, type |-> type, description |-> description, value |-> value]
RawSection(name, description, variables) ==
    [name |-> name, description |-> description, variables |-> variables]

\* What a parse gives: the pair it returns or the ValueError it raises, the
\* error known by the parts its message is composed of.
Parsed_ok(prefix_override, sections) ==
    [ok |-> TRUE, prefix |-> prefix_override, sections |-> sections]
\* A message names a field and what encloses it: the indexes (proposed
\* shape) or the names (legacy shape) of its section and of its variable.
ValueError(section, variable, field) ==
    [ok |-> FALSE,
     name |-> [section |-> section, variable |-> variable, field |-> field]]

\* A plausible slip in _parse_proposed: the type validated before the name.
RECURSIVE proposed_variables_type_first(_, _, _, _)
proposed_variables_type_first(variables_node, ix, jx, raw_vars) ==
    IF jx > Len(variables_node.v) THEN [ok |-> TRUE, raw_vars |-> raw_vars]
    ELSE LET var_obj == variables_node.v[jx] IN
         IF var_obj.t # "obj" THEN ValueError(ix, jx, "object")
         ELSE LET var_name == dict_get(var_obj, K_name)
                  var_type == dict_get(var_obj, K_type)
                  var_desc == dict_get(var_obj, K_description)
                  var_value == dict_get(var_obj, K_value)
              IN IF ~Validator_validate_string(var_type)
                 THEN ValueError(ix, jx, "type")
                 ELSE IF ~Validator_validate_string(var_name)
                 THEN ValueError(ix, jx, "name")
                 ELSE IF ~Validator_validate_string_or_none(var_desc)
                 THEN ValueError(ix, jx, "description")
                 ELSE IF ~Validator_validate_string_or_none(var_value)
                 THEN ValueError(ix, jx, "value")
                 ELSE proposed_variables_type_first(variables_node, ix, jx + 1,
                          Append(raw_vars,
                                 RawVar(PyStr(var_name), PyStr(var_type),
                                        PyStr(var_desc), PyStr(var_value))))

\* _parse_proposed: the loop over variables_node, from its jdx-th turn
RECURSIVE proposed_variables(_, _, _, _)
proposed_variables(variables_node, ix, jx, raw_vars) ==
    IF jx > Len(variables_node.v) THEN [ok |-> TRUE, raw_vars |-> raw_vars]
    ELSE LET var_obj == variables_node.v[jx] IN
         IF var_obj.t # "obj" THEN ValueError(ix, jx, "object")
         ELSE LET var_name == dict_get(var_obj, K_name)
                  var_type == dict_get(var_obj, K_type)
                  var_desc == dict_get(var_obj, K_description)
                  var_value == dict_get(var_obj, K_value)
              IN IF ~Validator_validate_string(var_name)
                 THEN ValueError(ix, jx, "name")
                 ELSE IF ~Validator_validate_string(var_type)
                 THEN ValueError(ix, jx, "type")
                 ELSE IF ~Validator_validate_string_or_none(var_desc)
                 THEN ValueError(ix, jx, "description")
                 ELSE IF ~Validator_validate_string_or_none(var_value)
                 THEN ValueError(ix, jx, "value")
                 ELSE proposed_variables(variables_node, ix, jx + 1,
                          Append(raw_vars,
                                 RawVar(PyStr(var_name), PyStr(var_type),
                                        PyStr(var_desc), PyStr(var_value))))

\* _parse_proposed: the loop over sections_node, from its idx-th turn
RECURSIVE proposed_sections(_, _, _, _)
proposed_sections(sections_node, prefix_override, ix, sections) ==
    IF ix > Len(sections_node.v) THEN Parsed_ok(prefix_override, sections)
    ELSE LET section_obj == sections_node.v[ix] IN
         IF section_obj.t # "obj" THEN ValueError(ix, 0, "object")
         ELSE LET section_name == dict_get(section_obj, K_name)
                  section_desc == dict_get(section_obj, K_description)
                  variables_node ==
                      dict_get_default(section_obj, K_variables, JArr(<<>>))
              IN IF ~Validator_validate_string(section_name)
                 THEN ValueError(ix, 0, "name")
                 ELSE IF ~Validator_validate_string(section_desc)
                 THEN ValueError(ix, 0, "description")
                 ELSE IF variables_node.t # "arr"
                 THEN ValueError(ix, 0, "variables")
                 ELSE LET vs == proposed_variables(variables_node, ix, 1, <<>>)
                      IN IF ~vs.ok THEN vs
                         ELSE proposed_sections(sections_node, prefix_override, ix + 1,
                                  Append(sections,
                                         RawSection(PyStr(section_name),
                                                    PyStr(section_desc),
                                                    vs.raw_vars)))

\* SchemaAdapter._parse_proposed
SchemaAdapter__parse_proposed(obj) ==
    LET prefix_node == dict_get(obj, K_prefix)
        sections_node == dict_get_default(obj, K_sections, JArr(<<>>))
    IN IF prefix_node # JNull /\ ~Validator_validate_string(prefix_node)
       THEN ValueError(0, 0, "prefix")
       ELSE IF sections_node.t # "arr" THEN ValueError(0, 0, "sections")
       ELSE proposed_sections(sections_node, PyStr(prefix_node), 1, <<>>)

\* _parse_legacy: the loop over section_vars.items(), from its k-th pair
RECURSIVE legacy_variables(_, _, _, _)
legacy_variables(section_vars, section_name, k, raw_vars) ==
    IF k > Len(section_vars.v) THEN [ok |-> TRUE, raw_vars |-> raw_vars]
    ELSE LET var_name == section_vars.v[k][1]
             var_obj == section_vars.v[k][2]
         IN IF ~Validator_validate_string(JStr(var_name))
            THEN ValueError(section_name, var_name, "name")
            ELSE IF ~Validator_validate_dict(var_obj)
            THEN ValueError(section_name, var_name, "object")
            ELSE LET var_type == dict_get(var_obj, K_type)
                     var_description == dict_get(var_obj, K_description)
                     var_value == dict_get(var_obj, K_value)
                 IN IF ~Validator_validate_string(var_type)
                    THEN ValueError(section_name, var_name, "type")
                    ELSE IF ~Validator_validate_string_or_none(var_description)
                    THEN ValueError(section_name, var_name, "description")
                    ELSE IF ~Validator_validate_string_or_none(var_value)
                    THEN ValueError(section_name, var_name, "value")
                    ELSE legacy_variables(section_vars, section_name, k + 1,
                             Append(raw_vars,
                                    RawVar(var_name, PyStr(var_type),
                                           PyStr(var_description),
                                           PyStr(var_value))))

\* _parse_legacy: the loop over obj.items(), from its s-th pair
RECURSIVE legacy_sections(_, _, _)
legacy_sections(obj, s, sections) ==
    IF s > Len(obj.v) THEN Parsed_ok(Null, sections)
    ELSE LET section_name == obj.v[s][1]
             section_val == obj.v[s][2]
         IN IF ~Validator_validate_string(JStr(section_name))
            THEN ValueError(<<>>, <<>>, "name")
            ELSE IF ~Validator_validate_dict(section_val)
            THEN ValueError(section_name, <<>>, "object")
            ELSE LET section_description == dict_get(section_val, K_description)
                     section_vars == dict_get(section_val, K_variables)
                 IN IF ~Validator_validate_string(section_description)
                    THEN ValueError(section_name, <<>>, "description")
                    ELSE IF ~Validator_validate_dict(section_vars)
                    THEN ValueError(section_name, <<>>, "variables")
                    ELSE LET vs == legacy_variables(section_vars, section_name,
                                                    1, <<>>)
                         IN IF ~vs.ok THEN vs
                            ELSE legacy_sections(obj, s + 1,
                                     Append(sections,
                                            RawSection(section_name,
                                                PyStr(section_description),
                                                vs.raw_vars)))

\* SchemaAdapter._parse_legacy, Validator.validate_dict(obj) having passed
SchemaAdapter__parse_legacy(obj) == legacy_sections(obj, 1, <<>>)

\* SchemaAdapter.parse
SchemaAdapter_parse(raw) ==
    IF raw.t = "obj" /\ dict_has(raw, K_sections)
         /\ dict_get(raw, K_sections).t = "arr"
    THEN SchemaAdapter__parse_proposed(raw)
    ELSE IF raw.t = "obj" THEN SchemaAdapter__parse_legacy(raw)
    ELSE ValueError(0, 0, "root")

\* ------------------------------------------------ schema documents
\* A document is a well-formed one of some layout (sz[s] variables in its
\* s-th section) with up to MaxAlterations of its fields given another
\* value.  A field is known by its section, its variable (0: none) and what
\* it is; the prefix is the field of section 0.
MaxAlterations == 2

Field(s, k, f) == [s |-> s, k |-> k, f |-> f]

RECURSIVE SubsetsUpTo(_, _)
SubsetsUpTo(S, n) ==
    IF n = 0 THEN {{}}
    ELSE LET P == SubsetsUpTo(S, n - 1) IN P \cup {p \cup {x} : p \in P, x \in S}

Shapes == {"legacy", "proposed"}

\* The fields of a variable and of a section in the order of the document:
\* a legacy key comes before the object it names, a proposed name is a
\* member of its object.
VariableFields(s, k, shape) ==
    (IF shape = "legacy"
     THEN <<Field(s, k, "name"), Field(s, k, "object")>>
     ELSE <<Field(s, k, "object"), Field(s, k, "name")>>)
    \o <<Field(s, k, "type"), Field(s, k, "description"), Field(s, k, "value")>>

RECURSIVE VariablesFields(_, _, _, _)
VariablesFields(s, k, n, shape) ==
    IF k > n THEN <<>>
    ELSE VariableFields(s, k, shape) \o VariablesFields(s, k + 1, n, shape)

SectionFields(sz, s, shape) ==
    (IF shape = "legacy"
     THEN <<Field(s, 0, "name"), Field(s, 0, "object")>>
     ELSE <<Field(s, 0, "object"), Field(s, 0, "name")>>)
    \o <<Field(s, 0, "description"), Field(s, 0, "variables")>>
    \o VariablesFields(s, 1, sz[s], shape)

RECURSIVE SectionsFields(_, _, _)
SectionsFields(sz, s, shape) ==
    IF s > Len(sz) THEN <<>>
    ELSE SectionFields(sz, s, shape) \o SectionsFields(sz, s + 1, shape)

DocumentOrder(sz, shape) ==
    (IF shape = "proposed" THEN <<Field(0, 0, "prefix")>> ELSE <<>>)
    \o SectionsFields(sz, 1, shape)

\* the other values a field is given
Alterations(f) ==
    CASE f.f = "prefix" -> {"default", "other", "blank"}
      [] f.f = "object" -> {"num"}
      [] f.f = "name" -> {"blank", "null"}
      [] f.f = "type" -> {"null"}
      [] f.f = "variables" -> {"null", "absent"}
      [] f.f = "description" /\ f.k = 0 -> {"null", "blank"}
      [] OTHER -> {"null", "num"}

Altered(sz) ==
    UNION { {a \in [F -> {"default", "other", "blank", "num", "null", "absent"}] :
                \A f \in F : a[f] \in Alterations(f)}
            : F \in SubsetsUpTo({DocumentOrder(sz, "proposed")[i] :
                                   i \in DOMAIN DocumentOrder(sz, "proposed")},
                                MaxAlterations) }

\* What is not an object or not a container has nothing inside.
WellFormed(sz, a) ==
    \A f \in DOMAIN a :
        /\ f.f = "variables" => sz[f.s] = 0
        /\ f.f = "object" =>
              /\ f.k = 0 => sz[f.s] = 0
              /\ \A g \in DOMAIN a : (g.s = f.s /\ g.k = f.k) => g = f

\* EnvVarsRoot.prefix of src/app/env_vars.py
default_prefix == <<"H", "O", "M", "E", "L", "A", "B">>

\* the value of a field: the well-formed one unless the field is altered
FieldValue(a, f, good) ==
    IF f \notin DOMAIN a THEN good
    ELSE CASE a[f] = "null" -> JNull
           [] a[f] = "num" -> JNum
           [] a[f] = "blank" ->
                 JStr(IF f.f = "name" THEN Spaces(IF f.k = 0 THEN f.s ELSE f.k)
                      ELSE <<" ">>)
           [] a[f] = "default" -> JStr(default_prefix)
           [] a[f] = "other" -> JStr(prefix)

SectionNameValue(a, s) ==
    FieldValue(a, Field(s, 0, "name"), JStr(<<ascii_uppercase[s]>>))
VariableNameValue(a, s, k) ==
    FieldValue(a, Field(s, k, "name"), JStr(<<ascii_lowercase[k]>>))

\* the members both shapes give a variable
VariableMembers(a, s, k) ==
    << <<K_type, FieldValue(a, Field(s, k, "type"), JStr(<<"T">>))>>,
       <<K_description,
         FieldValue(a, Field(s, k, "description"), JStr(<<"d">>))>>,
       <<K_value, FieldValue(a, Field(s, k, "value"), JStr(<<"v">>))>> >>

SectionDescription(a, s) ==
    <<K_description, FieldValue(a, Field(s, 0, "description"), JStr(<<"d">>))>>

\* the "variables" member of a section, its container built by `container`
VariablesMember(a, s, container) ==
    IF Field(s, 0, "variables") \notin DOMAIN a THEN << <<K_variables, container>> >>
    ELSE IF a[Field(s, 0, "variables")] = "absent" THEN <<>>
    ELSE << <<K_variables, JNull>> >>

\* {"prefix": ..., "sections": [{"name": ..., "description": ...,
\*   "variables": [{"name": ..., "type": ..., ...}]}]}
ProposedVariable(a, s, k) ==
    IF Field(s, k, "object") \in DOMAIN a THEN JNum
    ELSE JObj(<< <<K_name, VariableNameValue(a, s, k)>> >>
              \o VariableMembers(a, s, k))

ProposedSection(sz, a, s) ==
    IF Field(s, 0, "object") \in DOMAIN a THEN JNum
    ELSE JObj(<< <<K_name, SectionNameValue(a, s)>>, SectionDescription(a, s) >>
              \o VariablesMember(a, s,
                     JArr([k \in 1..sz[s] |-> ProposedVariable(a, s, k)])))

ProposedDocument(sz, a) ==
    JObj((IF Field(0, 0, "prefix") \in DOMAIN a
          THEN << <<K_prefix, FieldValue(a, Field(0, 0, "prefix"), JNull)>> >>
          ELSE <<>>)
         \o << <<K_sections,
                 JArr([s \in 1..Len(sz) |-> ProposedSection(sz, a, s)])>> >>)

\* {"<SECTION>": {"description": ..., "variables": {"<VAR>": {"type": ...}}}}
LegacyVariable(a, s, k) ==
    <<VariableNameValue(a, s, k).v,
      IF Field(s, k, "object") \in DOMAIN a THEN JNum
      ELSE JObj(VariableMembers(a, s, k))>>

LegacySection(sz, a, s) ==
    <<SectionNameValue(a, s).v,
      IF Field(s, 0, "object") \in DOMAIN a THEN JNum
      ELSE JObj(<<SectionDescription(a, s)>>
                \o VariablesMember(a, s,
                       JObj([k \in 1..sz[s] |-> LegacyVariable(a, s, k)])))>>

LegacyDocument(sz, a) == JObj([s \in 1..Len(sz) |-> LegacySection(sz, a, s)])

\* A key of a JSON object is a string.  A legacy schema has no prefix: it
\* is the legacy form of a proposed schema that has none either or has the
\* default one.
LegacyExpressible(a) ==
    \A f \in DOMAIN a : /\ f.f = "name" => a[f] # "null"
                        /\ f.f = "prefix" => a[f] = "default"

NoDocument == [t |-> "none"]

Document(sz, a, shape) ==
    IF shape = "proposed" THEN ProposedDocument(sz, a)
    ELSE IF LegacyExpressible(a) THEN LegacyDocument(sz, a)
    ELSE NoDocument

\* ------------------------------------- parse_schema, DotenvBuilder, main
\* What get_value_for_type returns for a variable is an input of the
\* orchestration; here every variable resolves to the same line.
Resolved == <<" ", "r">>

\* parse_schema after adapter.parse(): `if prefix_override: root.prefix = ...`
root_prefix(parsed) ==
    IF parsed.prefix \notin {Null, <<>>} THEN parsed.prefix ELSE default_prefix

\* parse_schema: the loop over section_data.variables
parse_schema_vars(section_name, raw_vars) ==
    [k \in DOMAIN raw_vars |->
        [EnvVar("app", section_name \o <<"_">> \o raw_vars[k].name,
                raw_vars[k].description, raw_vars[k].value)
         EXCEPT !.value = str_strip(Resolved)]]

\* parse_schema: the loop over sections
parse_schema(parsed) ==
    [s \in DOMAIN parsed.sections |->
        [name |-> root_prefix(parsed) \o <<"_">> \o parsed.sections[s].name,
         description |-> parsed.sections[s].description,
         vars |-> parse_schema_vars(
                      root_prefix(parsed) \o <<"_">> \o parsed.sections[s].name,
                      parsed.sections[s].variables)]]

\* DotenvBuilder.add_section of src/scripts/configure.py: the lines appended
DotenvBuilder_add_section(section) ==
    add_section_header(section)
    \o Concat([k \in DOMAIN section.vars |->
                  EnvVar_get_dotenv_value(section.vars[k])])
    \o << <<>> >>

\* DotenvBuilder.build: "\n".join(self._lines).rstrip() + "\n"
DotenvBuilder_build(lines) == str_rstrip(str_join(lines)) \o <<"\n">>

\* main after load_schema_raw and parse_schema: the content written
main_content(sections) ==
    DotenvBuilder_build(Concat([s \in DOMAIN sections |->
                                   DotenvBuilder_add_section(sections[s])]))

InitAdapter ==
    /\ variant = "app"
    /\ Idle
    /\ \E sz \in Layouts :
          \E a \in Altered(sz) :
             /\ WellFormed(sz, a)
             /\ unit = [sz |-> sz, a |-> a,
                        stage |-> [shape \in Shapes |-> "loaded"],
                        parsed |-> [shape \in Shapes |-> Parsed_ok(Null, <<>>)],
                        content |-> [shape \in Shapes |-> <<>>]]

\* load_schema_raw(SCHEMA_PATH): the document of a shape
raw(shape) == Document(unit.sz, unit.a, shape)

\* adapter.parse() on the document of one shape
call_SchemaAdapter_parse ==
    /\ \E shape \in Shapes :
          /\ unit.stage[shape] = "loaded"
          /\ raw(shape) # NoDocument
          /\ unit' = [unit EXCEPT !.stage[shape] = "parsed",
                         !.parsed[shape] = SchemaAdapter_parse(raw(shape))]
    /\ UNCHANGED <<variant, run>>

\* the rest of main once the adapter has returned
call_main_write ==
    /\ \E shape \in Shapes :
          /\ unit.stage[shape] = "parsed"
          /\ unit.parsed[shape].ok
          /\ unit' = [unit EXCEPT !.stage[shape] = "written",
                         !.content[shape] =
                             main_content(parse_schema(unit.parsed[shape]))]
    /\ UNCHANGED <<variant, run>>

NextAdapter ==
    \/ call_SchemaAdapter_parse
    \/ call_main_write

SpecAdapter == InitAdapter /\ [][NextAdapter]_vars

\* The two documents of a state have identical logical content: every
\* altered field has its value in both, and the prefix in force is the same.
IdenticalContent ==
    /\ LegacyExpressible(unit.a)
    /\ \A f \in DOMAIN unit.a : f.f # "object"

\* C21: a legacy-shape and a proposed-shape schema with identical logical
\* content normalize to the same RawSection/RawVar sequence and, for the
\* same resolved values, give byte-identical output.
C21_ShapeIndependence ==
    IdenticalContent =>
        /\ (\A shape \in Shapes : unit.stage[shape] # "loaded") =>
              /\ unit.parsed["legacy"].ok = unit.parsed["proposed"].ok
              /\ unit.parsed["legacy"].ok =>
                    unit.parsed["legacy"].sections
                        = unit.parsed["proposed"].sections
        /\ (\A shape \in Shapes : unit.stage[shape] = "written") =>
              unit.content["legacy"] = unit.content["proposed"]

\* The validation rules, field by field: a name, a type, a prefix and a
\* section's description are non-empty strings, a variable's description and
\* value are strings or null, a section and a variable are objects, and
\* "variables" is a container (the proposed shape takes a missing one for
\* an empty list).
IsNonEmptyString(value) ==
    value.t = "str" /\ \E i \in DOMAIN value.v : value.v[i] \notin Whitespace

Violates(a, f, shape) ==
    /\ f \in DOMAIN a
    /\ CASE f.f = "object" -> TRUE
         [] f.f = "variables" -> a[f] = "null" \/ shape = "legacy"
         [] f.f \in {"name", "type", "prefix"} \/ (f.f = "description" /\ f.k = 0) ->
               ~IsNonEmptyString(FieldValue(a, f, JNull))
         [] OTHER -> FieldValue(a, f, JNull).t \notin {"str", "null"}

\* the fields of the document of a shape that violate a rule
Violations(shape) == {f \in DOMAIN unit.a : Violates(unit.a, f, shape)}

\* the place of a field in the order of the document
Place(order, f) == CHOOSE i \in DOMAIN order : order[i] = f

\* the violation that comes first in the document
FirstViolation(shape) ==
    LET order == DocumentOrder(unit.sz, shape)
        V == Violations(shape)
    IN CHOOSE f \in V : \A g \in V : Place(order, f) <= Place(order, g)

\* A message identifies a field: it names what the field is and, where the
\* field has them, the index (proposed) or the name (legacy) of its section
\* and of its variable.  A legacy section name has nothing around it.
Identifies(name, f, shape) ==
    /\ name.field = f.f
    /\ IF shape = "proposed"
       THEN name.section = f.s /\ name.variable = f.k
       ELSE \/ f.f = "name" /\ f.k = 0
            \/ /\ name.section = SectionNameValue(unit.a, f.s).v
               /\ f.k > 0 => name.variable = VariableNameValue(unit.a, f.s, f.k).v

MaxTextLen == 5
MaxWidth == 3

\* the characters of the texts tried: letters, a blank, a tab, a line break
TextChars == {"a", "b", " ", "\t", "\n"}
Texts == UNION {[1..n -> TextChars] : n \in 0..MaxTextLen}

InitWrap ==
    /\ variant = "app"
    /\ Idle
    /\ \E text \in Texts \cup {Null}, width \in 1..MaxWidth :
          unit = [text |-> text, width |-> width, stage |-> "called",
                  lines |-> <<>>]

\* Printer.wrap_lines(text, width)
call_wrap_lines ==
    /\ unit.stage = "called"
    /\ unit' = [unit EXCEPT !.stage = "returned",
                   !.lines = Printer_wrap_lines(unit.text, unit.width)]
    /\ UNCHANGED <<variant, run>>

NextWrap == call_wrap_lines

SpecWrap == InitWrap /\ [][NextWrap]_vars

SingleLine(text) == "\n" \notin Chars(text)

\* C23: wrap_lines(None) and wrap_lines("") both return [""], and for every
\* single-line input s with len(s) <= width, wrap_lines(s, width) returns [s].
C23_ShortInputReturnedAsIs ==
    unit.stage = "returned" =>
        /\ unit.text \in {Null, <<>>} => unit.lines = << <<>> >>
        /\ (unit.text # Null /\ SingleLine(unit.text)
              /\ Len(unit.text) <= unit.width) => unit.lines = <<unit.text>>

\* C23 as amended: wrap_lines(None), wrap_lines("") and wrap_lines of a text
\* of whitespace only return [""], and for every single-line input s with
\* len(s) <= width that has no tab and is not whitespace only,
\* wrap_lines(s, width) returns [s].
C23_ShortInputReturnedAsIsUnlessBlank ==
    unit.stage = "returned" =>
        /\ (unit.text = Null \/ Chars(unit.text) \subseteq Whitespace) =>
              unit.lines = << <<>> >>
        /\ (unit.text # Null /\ SingleLine(unit.text)
              /\ Len(unit.text) <= unit.width
              /\ "\t" \notin Chars(unit.text)
              /\ ~(Chars(unit.text) \subseteq Whitespace)) =>
              unit.lines = <<unit.text>>

\* a line as long as the width, a blank in it, came back as it was
C23_Witness ==
    /\ unit.stage = "returned"
    /\ unit.text = <<"a", " ", "b">>
    /\ unit.width = Len(unit.text)
    /\ unit.lines = <<unit.text>>

\* In a text that its lines concatenate to: where the i-th line starts, the
\* line a character is on, and where the word of a character starts.
LineStart(lines, i) == 1 + Len(Concat(SubSeq(lines, 1, i - 1)))
LineOf(lines, p) ==
    CHOOSE i \in DOMAIN lines :
        LineStart(lines, i) <= p /\ p < LineStart(lines, i) + Len(lines[i])
WordStart(text, p) ==
    CHOOSE q \in 1..p :
        /\ \A r \in q..p : text[r] \notin Whitespace
        /\ q = 1 \/ text[q - 1] \in Whitespace
WordEnd(text, p) ==
    CHOOSE q \in p..Len(text) :
        /\ \A r \in p..q : text[r] \notin Whitespace
        /\ q = Len(text) \/ text[q + 1] \in Whitespace

\* the places where a word is cut: a character and the next one are of one
\* word and on two lines
Cuts(text, lines) ==
    {p \in 1..(Len(text) - 1) :
        /\ text[p] \notin Whitespace /\ text[p + 1] \notin Whitespace
        /\ LineOf(lines, p) # LineOf(lines, p + 1)}

\* the length of the piece of its word that ends at a cut
Piece(text, lines, p) ==
    LET w == WordStart(text, p)
        l == LineStart(lines, LineOf(lines, p))
    IN p + 1 - (IF w > l THEN w ELSE l)

MaxItems == 2

\* The directories of the model: the repository's ./adguard/conf, a path of
\* the repository where nothing is, and the destination /srv/adguard.
RepoConf == "/repo/adguard/conf"
RepoNone == "/repo/none"
SrvConf == "/srv/adguard"
Places == {RepoConf, RepoNone, SrvConf}

\* (base / src).resolve()
resolve_source_relative(src) ==
    IF src = "./adguard/conf" THEN RepoConf ELSE RepoNone

\* Path(expanduser(expandvars(value))).resolve()
resolve_dest(value) ==
    CASE value = "/srv/adguard" -> SrvConf
      [] value = "/srv/./adguard/" -> SrvConf
      [] value = "/repo/adguard/conf/" -> RepoConf

\* what is at a place: nothing, a file, or a directory and its entries
Missing == [kind |-> "missing", entries |-> {}]
AFile == [kind |-> "file", entries |-> {}]
Dir(entries) == [kind |-> "dir", entries |-> entries]

\* an entry that unlink cannot remove (OSError)
Busy == "busy"

Unset == "<unset>"
DestVar == "ADGUARD_CONF_PATH"

\* the conf_list of main
main_conf_list == << [t |-> "dict", keys |-> {"source", "dest"},
                     source |-> "./adguard/conf", dest |-> DestVar] >>

\* the items copy_conf_items may be given
ConfItems ==
    {[t |-> "dict", keys |-> {"source", "dest"}, source |-> s, dest |-> d]
        : s \in {"./adguard/conf", "./none"}, d \in {DestVar, "NO_SUCH_PATH"}}
    \cup {[t |-> "dict", keys |-> {"source"}, source |-> "./adguard/conf",
           dest |-> Unset],
          [t |-> "str", keys |-> {}, source |-> Unset, dest |-> Unset]}

\* the lines typed at the confirmation prompt
Yes == <<"Y", "E", "S">>
ConfirmLines == {Yes, <<" ">> \o Yes \o <<" ">>, <<"y", "e", "s">>, <<>>,
                 <<"Y", "E", "S", "!">>}

\* A plausible slip: the answer compared whatever its case.
confirmed_any_case(line) == str_upper(str_strip(line)) = Yes

\* main: confirm = input(...).strip(); confirm == "YES"
confirmed(line) == str_strip(line) = Yes

InitCopy ==
    /\ variant = "app"
    /\ Idle
    /\ \E entry \in {"main", "copy_conf_items"},
          env_file \in BOOLEAN,
          value \in {Unset, "/srv/adguard", "/srv/./adguard/", "/repo/adguard/conf/"},
          source \in {Dir({"conf.yaml"}), Missing},
          dest \in {Missing, AFile, Dir({}), Dir({"old"}), Dir({"old", Busy})} :
          \E conf_list \in IF entry = "main" THEN {main_conf_list}
                           ELSE SeqsUpTo(ConfItems, MaxItems) :
             unit = [entry |-> entry,
                     pc |-> IF entry = "main" THEN "confirm" ELSE "load_env",
                     line |-> <<>>,
                     conf_list |-> conf_list,
                     env_file |-> env_file,
                     env |-> value,
                     fs |-> [p \in Places |->
                               CASE p = RepoConf -> source
                                 [] p = SrvConf -> dest
                                 [] OTHER -> Missing],
                     fs0 |-> [p \in Places |->
                               CASE p = RepoConf -> source
                                 [] p = SrvConf -> dest
                                 [] OTHER -> Missing],
                     before |-> [p \in Places |-> Missing],
                     i |-> 0, src_dir |-> Unset, dest_dir |-> Unset,
                     emptied |-> {},
                     error |-> Unset]

raise(e) == [unit EXCEPT !.pc = "raised", !.error = e]

\* main up to the call of copy_conf_items
main_confirm ==
    /\ unit.pc = "confirm"
    /\ \E line \in ConfirmLines :
          unit' = [unit EXCEPT !.line = line,
                     !.pc = IF confirmed(line) THEN "load_env" ELSE "aborted"]
    /\ UNCHANGED <<variant, run>>

\* copy_conf_items up to its loop
copy_conf_items_load_env ==
    /\ unit.pc = "load_env"
    /\ unit' = IF ~unit.env_file THEN raise("FileNotFoundError")
               ELSE [unit EXCEPT !.pc = "item"]
    /\ UNCHANGED <<variant, run>>

\* one turn of the loop up to _ensure_empty_directory, or the return; i is
\* the item of the turn and `before` what was on disk when the turn began
copy_conf_items_item ==
    /\ unit.pc = "item"
    /\ unit' =
          IF unit.i = Len(unit.conf_list) THEN [unit EXCEPT !.pc = "done"]
          ELSE LET item == unit.conf_list[unit.i + 1]
                   src_dir == resolve_source_relative(item.source)
                   stop(e) == [raise(e) EXCEPT !.i = @ + 1, !.before = unit.fs]
               IN IF item.t # "dict" THEN stop("TypeError")
                  ELSE IF ~({"source", "dest"} \subseteq item.keys)
                  THEN stop("ValueError")
                  ELSE IF item.dest # DestVar \/ unit.env = Unset
                  THEN stop("ValueError")
                  ELSE IF src_dir = resolve_dest(unit.env)
                  THEN stop("ValueError")
                  ELSE [unit EXCEPT !.pc = "prepare", !.i = @ + 1,
                                    !.before = unit.fs,
                                    !.src_dir = src_dir,
                                    !.dest_dir = resolve_dest(unit.env)]
    /\ UNCHANGED <<variant, run>>

\* _ensure_empty_directory(dest_dir): an entry that cannot be removed stops
\* it, the entries iterated before it gone (iterdir gives them in any order)
ensure_empty_directory ==
    /\ unit.pc = "prepare"
    /\ LET dest == unit.fs[unit.dest_dir] IN
          IF dest.kind = "file" THEN unit' = raise("FileExistsError")
          ELSE IF Busy \in dest.entries
          THEN \E gone \in SUBSET (dest.entries \ {Busy}) :
                  unit' = [raise("RuntimeError") EXCEPT
                              !.fs[unit.dest_dir] = Dir(dest.entries \ gone),
                              !.emptied = @ \cup {unit.i}]
          ELSE unit' = [unit EXCEPT !.pc = "copy",
                           !.fs[unit.dest_dir] = Dir({}),
                           !.emptied = @ \cup {unit.i}]
    /\ UNCHANGED <<variant, run>>

\* _copy_dir_contents(src_dir, dest_dir)
copy_dir_contents ==
    /\ unit.pc = "copy"
    /\ LET src == unit.fs[unit.src_dir] IN
          unit' = IF src.kind # "dir" THEN raise("ValueError")
                  ELSE [unit EXCEPT !.pc = "item",
                           !.fs[unit.dest_dir] =
                               Dir(unit.fs[unit.dest_dir].entries \cup src.entries)]
    /\ UNCHANGED <<variant, run>>

NextCopy ==
    \/ main_confirm
    \/ copy_conf_items_load_env
    \/ copy_conf_items_item
    \/ ensure_empty_directory
    \/ copy_dir_contents

SpecCopy == InitCopy /\ [][NextCopy]_vars

\* C25: no destination directory is created, emptied or written unless the
\* user typed exactly "YES" at the confirmation prompt of main; any other
\* input ends the run with every destination unchanged.
C25_CopyIsConfirmationGated ==
    (unit.entry = "main" /\ unit.pc # "confirm") =>
        IF unit.line = Yes THEN unit.pc # "aborted"
        ELSE /\ unit.pc = "aborted"
             /\ unit.fs = unit.fs0
             /\ unit.emptied = {}

\* C25 as amended: no destination directory is created, emptied or written
\* unless the line typed at the confirmation prompt of main is "YES" once
\* the whitespace around it is stripped; any other input ends the run with
\* every destination unchanged.
C25_CopyIsGatedByStrippedAnswer ==
    (unit.entry = "main" /\ unit.pc # "confirm") =>
        IF str_strip(unit.line) = Yes THEN unit.pc # "aborted"
        ELSE /\ unit.pc = "aborted"
             /\ unit.fs = unit.fs0
             /\ unit.emptied = {}

\* the user confirmed and the destination was emptied and filled
C25_Witness ==
    /\ unit.entry = "main"
    /\ unit.line = Yes
    /\ unit.pc = "done"
    /\ unit.fs0[SrvConf] = Dir({"old"})
    /\ unit.fs[SrvConf] = Dir({"conf.yaml"})

SpecLive == Init /\ [][Next]_vars /\ WF_vars(Next)

\* Every type tag of the schema has a strategy in the registry, and the
\* non-interactive variables carry the value their strategy needs.
Registered(sch) ==
    \A s \in 1..Len(sch) : \A k \in 1..Len(sch[s]) :
        /\ sch[s][k].type # None
        /\ TypeHandlerRegistry_get(sch[s][k].type)
        /\ Upper(sch[s][k].type) \in {"CONSTANT", "GENERATED"} =>
              sch[s][k].value # None

\* C26: a run of scripts/configuration/configure.py over a valid schema
\* whose type tags are all registered, which the user does not interrupt,
\* eventually ends with every variable resolved and the output file
\* written exactly once.
C26_ValidRunEndsWritten ==
    (variant = "cfg" /\ config_valid(schema) /\ Registered(schema)) =>
        <>( \/ pc = "exited"
            \/ /\ pc = "done"
               /\ written = 1
               /\ ResolvedNames = DeclaredNames(schema) )

\* ------------------------------------------------------- src/backup.py
\* The backup operations of a run, executed one after another.
MaxOps == 2

NoCommand == None

\* The DirectoryBackup operations of backup_operations differ in their
\* hooks and in what is found at source_path.
DirectoryBackups ==
    [pre_command : {NoCommand, "docker compose stop calibre"},
     post_command : {NoCommand, "docker compose start calibre"},
     source_path : {"dir", "file", "missing"}]

\* One call of CommandRunner.run: the command ran, with exit status 0 or
\* not (CalledProcessError, raised again).
Ran(op, hook, ok) == [op |-> op, hook |-> hook, ok |-> ok]

InitBackup ==
    /\ variant = "app"
    /\ Idle
    /\ \E n \in 1..MaxOps : \E ops \in [1..n -> DirectoryBackups] :
          unit = [backup_operations |-> ops,
                  i |-> 1,
                  pc |-> "run",
                  commands |-> <<>>,
                  copied |-> {},
                  error |-> Unset]

operation == unit.backup_operations[unit.i]

\* DirectoryBackup.run, super().run(): mkdir of the output path.
Backup_run ==
    /\ unit.pc = "run"
    /\ \E ok \in BOOLEAN :
          unit' = IF ok THEN [unit EXCEPT !.pc = "pre_command"]
                  ELSE raise("OSError")
    /\ UNCHANGED <<variant, run>>

\* DirectoryBackup.run: the pre_command, if one is provided.
DirectoryBackup_run_pre_command ==
    /\ unit.pc = "pre_command"
    /\ IF operation.pre_command = NoCommand
       THEN unit' = [unit EXCEPT !.pc = "source"]
       ELSE \E ok \in BOOLEAN :
               unit' = [(IF ok THEN [unit EXCEPT !.pc = "source"]
                         ELSE raise("CalledProcessError"))
                        EXCEPT !.commands =
                            Append(unit.commands, Ran(unit.i, "pre", ok))]
    /\ UNCHANGED <<variant, run>>

\* DirectoryBackup.run: the test of source_path; the else branch returns.
DirectoryBackup_run_source ==
    /\ unit.pc = "source"
    /\ unit' = [unit EXCEPT !.pc = IF operation.source_path = "dir"
                                   THEN "copytree" ELSE "return"]
    /\ UNCHANGED <<variant, run>>

\* DirectoryBackup.run: shutil.copytree inside the try block.
DirectoryBackup_run_copytree ==
    /\ unit.pc = "copytree"
    /\ \E ok \in BOOLEAN :
          unit' = IF ok THEN [unit EXCEPT !.pc = "post_command",
                                          !.copied = @ \cup {unit.i}]
                  ELSE raise("Error")
    /\ UNCHANGED <<variant, run>>

\* DirectoryBackup.run: the post_command, inside the try block after the
\* copy.
DirectoryBackup_run_post_command ==
    /\ unit.pc = "post_command"
    /\ IF operation.post_command = NoCommand
       THEN unit' = [unit EXCEPT !.pc = "return"]
       ELSE \E ok \in BOOLEAN :
               unit' = [(IF ok THEN [unit EXCEPT !.pc = "return"]
                         ELSE raise("CalledProcessError"))
                        EXCEPT !.commands =
                            Append(unit.commands, Ran(unit.i, "post", ok))]
    /\ UNCHANGED <<variant, run>>

\* run returns; the loop over backup_operations goes on.
main_next_operation ==
    /\ unit.pc = "return"
    /\ unit' = IF unit.i < Len(unit.backup_operations)
               THEN [unit EXCEPT !.i = @ + 1, !.pc = "run"]
               ELSE [unit EXCEPT !.pc = "finished"]
    /\ UNCHANGED <<variant, run>>

NextBackup ==
    \/ Backup_run
    \/ DirectoryBackup_run_pre_command
    \/ DirectoryBackup_run_source
    \/ DirectoryBackup_run_copytree
    \/ DirectoryBackup_run_post_command
    \/ main_next_operation

SpecBackup == InitBackup /\ [][NextBackup]_vars

\* The run of operation op has returned or raised.
RunEnded(op) ==
    \/ op < unit.i
    \/ op = unit.i /\ unit.pc \in {"return", "finished", "raised"}

\* C28: once the run of a DirectoryBackup has returned or raised, if its
\* pre_command was executed successfully and it has a post_command, the
\* post_command was executed, whatever was found at the source path and
\* however the copy ended.
C28_PostCommandAlwaysRuns ==
    \A op \in DOMAIN unit.backup_operations :
        ( /\ RunEnded(op)
          /\ unit.backup_operations[op].post_command # NoCommand
          /\ \E c \in DOMAIN unit.commands :
                unit.commands[c] = Ran(op, "pre", TRUE) )
        => \E c \in DOMAIN unit.commands :
              /\ unit.commands[c].op = op
              /\ unit.commands[c].hook = "post"

\* --------------------------------------- src/scripts/restore_immich.py
\* How many of the required keys a .env file may leave out or leave empty.
MaxMissing == 1

required_keys ==
    {"HOMELAB_IMMICH_WEB_UPLOAD_PATH", "HOMELAB_IMMICH_DB_DATA_PATH",
     "HOMELAB_IMMICH_ML_CACHE_DATA_PATH", "HOMELAB_IMMICH_REDIS_DATA_PATH",
     "HOMELAB_IMMICH_DB_CONTAINER_NAME", "HOMELAB_IMMICH_DB_PASSWORD",
     "HOMELAB_IMMICH_DB_USER", "HOMELAB_IMMICH_DB_DATABASE"}

\* The four directories main clears, in the order of its loop.
data_paths ==
    <<"HOMELAB_IMMICH_WEB_UPLOAD_PATH", "HOMELAB_IMMICH_DB_DATA_PATH",
      "HOMELAB_IMMICH_ML_CACHE_DATA_PATH", "HOMELAB_IMMICH_REDIS_DATA_PATH">>

\* read_env_file: no file, or a value for the keys of the file; a key the
\* file leaves out is Unset, KEY= gives the empty string.
NoEnvFile == <<>>
EnvFiles ==
    {NoEnvFile} \cup
    {e \in [required_keys -> {Unset, "", "v"}] :
        Cardinality({k \in required_keys : e[k] # "v"}) <= MaxMissing}

\* missing = [k for k in required_keys if not env.get(k)]
missing(env) == {k \in required_keys : env[k] \in {Unset, ""}}

\* input() at the end of the input raises EOFError.
EOF == <<"<EOF>">>
yes == <<"y", "e", "s">>
Answers == {yes, <<" ">> \o yes \o <<"\t">>, <<"Y", "E", "S">>, <<"y">>, <<>>, EOF}

\* A plausible slip: any answer that starts with a y confirms.
confirm_or_exit_initial(resp) ==
    resp # EOF /\ str_strip(resp) # <<>> /\ Head(str_strip(resp)) = "y"

\* confirm_or_exit returns (instead of sys.exit(1)) exactly when this holds.
confirm_or_exit(resp) == resp # EOF /\ str_strip(resp) = yes

\* What the path typed at a prompt of prompt_for_paths leads to.
DbPaths == {"file.sql", "file.txt", "dir", "missing", "EOF"}
UploadPaths == {"dir", "file", "missing", "EOF"}

\* subprocess.run with check=True: exit status 0, a non-zero exit status,
\* or no docker executable.
Outcomes == {"ok", "CalledProcessError", "FileNotFoundError"}

InitRestore ==
    /\ variant = "app"
    /\ Idle
    /\ \E env \in EnvFiles :
          unit = [pc |-> "confirm", env |-> env, resp |-> <<>>,
                  restored_db |-> Unset, restored_upload |-> Unset,
                  down |-> Unset, cleared |-> {}, done |-> {},
                  status |-> <<>>, error |-> Unset]

return(status) == [unit EXCEPT !.pc = "returned", !.status = <<status>>]
sys_exit(status) == [unit EXCEPT !.pc = "exited", !.status = <<status>>]
step(name, next) == [unit EXCEPT !.pc = next, !.done = @ \cup {name}]

\* main 1): confirm_or_exit
restore_immich_confirm ==
    /\ unit.pc = "confirm"
    /\ \E resp \in Answers :
          unit' = [(IF confirm_or_exit(resp)
                    THEN [unit EXCEPT !.pc = "load_env"]
                    ELSE sys_exit(1))
                   EXCEPT !.resp = resp]
    /\ UNCHANGED <<variant, run>>

\* main 2): read_env_file and the required keys
restore_immich_load_env ==
    /\ unit.pc = "load_env"
    /\ unit' = IF unit.env = NoEnvFile THEN return(1)
               ELSE IF missing(unit.env) # {} THEN return(1)
               ELSE step("env", "prompt_db")
    /\ UNCHANGED <<variant, run>>

\* main 3): prompt_for_paths, the database dump
prompt_for_paths_db ==
    /\ unit.pc = "prompt_db"
    /\ \E p \in DbPaths :
          unit' = IF p = "file.sql"
                  THEN [step("db", "prompt_upload") EXCEPT !.restored_db = p]
                  ELSE sys_exit(1)
    /\ UNCHANGED <<variant, run>>

\* main 3): prompt_for_paths, the upload directory
prompt_for_paths_upload ==
    /\ unit.pc = "prompt_upload"
    /\ \E p \in UploadPaths :
          unit' = IF p = "dir"
                  THEN [step("upload", "down") EXCEPT !.restored_upload = p]
                  ELSE sys_exit(1)
    /\ UNCHANGED <<variant, run>>

\* main 4): docker compose down -v; CalledProcessError is caught and only
\* warned about.
restore_immich_down ==
    /\ unit.pc = "down"
    /\ \E o \in Outcomes :
          unit' = [(IF o = "FileNotFoundError" THEN raise(o)
                    ELSE [unit EXCEPT !.pc = "clear"])
                   EXCEPT !.down = o]
    /\ UNCHANGED <<variant, run>>

\* main 5): one turn of the loop over the data directories: ensure_dir and
\* clear_directory_contents, either of which may raise.
restore_immich_clear ==
    /\ unit.pc = "clear"
    /\ LET p == data_paths[Cardinality(unit.cleared) + 1] IN
       \E o \in {"ok", "mkdir", "remove"} :
          unit' = CASE o = "mkdir" -> return(1)
                    [] o = "remove" ->
                         [return(1) EXCEPT !.cleared = @ \cup {p}]
                    [] OTHER ->
                         [unit EXCEPT !.cleared = @ \cup {p},
                             !.pc = IF Cardinality(unit.cleared) + 1
                                          = Len(data_paths)
                                    THEN "copy" ELSE "clear"]
    /\ UNCHANGED <<variant, run>>

\* main 6): copy_directory_contents of the restored upload directory
restore_immich_copy ==
    /\ unit.pc = "copy"
    /\ \E ok \in BOOLEAN :
          unit' = IF ok THEN step("copy", "up_db") ELSE return(1)
    /\ UNCHANGED <<variant, run>>

\* main 7): docker compose up -d of the database services
restore_immich_up_db ==
    /\ unit.pc = "up_db"
    /\ \E o \in Outcomes :
          unit' = CASE o = "ok" -> step("up_db", "restore_db")
                    [] o = "CalledProcessError" -> return(1)
                    [] OTHER -> raise(o)
    /\ UNCHANGED <<variant, run>>

\* main 9): the dump piped into psql; both exceptions are caught.
restore_immich_restore_db ==
    /\ unit.pc = "restore_db"
    /\ \E o \in Outcomes :
          unit' = IF o = "ok" THEN step("restore_db", "up_immich")
                  ELSE return(1)
    /\ UNCHANGED <<variant, run>>

\* main 10): docker compose up -d immich, then return 0
restore_immich_up_immich ==
    /\ unit.pc = "up_immich"
    /\ \E o \in Outcomes :
          unit' = CASE o = "ok" ->
                         [return(0) EXCEPT !.done = @ \cup {"up_immich"}]
                    [] o = "CalledProcessError" -> return(1)
                    [] OTHER -> raise(o)
    /\ UNCHANGED <<variant, run>>

NextRestore ==
    \/ restore_immich_confirm
    \/ restore_immich_load_env
    \/ prompt_for_paths_db
    \/ prompt_for_paths_upload
    \/ restore_immich_down
    \/ restore_immich_clear
    \/ restore_immich_copy
    \/ restore_immich_up_db
    \/ restore_immich_restore_db
    \/ restore_immich_up_immich

SpecRestore == InitRestore /\ [][NextRestore]_vars

\* The .env file holds a non-empty value for every required key and both
\* restored source paths passed their test.
Validated ==
    /\ unit.env # NoEnvFile
    /\ \A k \in required_keys : unit.env[k] \notin {Unset, ""}
    /\ unit.restored_db = "file.sql"
    /\ unit.restored_upload = "dir"

EveryLaterStepDone ==
    /\ unit.cleared = {data_paths[i] : i \in DOMAIN data_paths}
    /\ {"copy", "up_db", "restore_db", "up_immich"} \subseteq unit.done

\* C29: a data directory is cleared only after the user answered exactly
\* yes, the required .env keys and both restored paths were validated, and
\* docker compose down -v completed successfully; and main returns 0 only
\* if every step, the compose down included, succeeded.
C29_ClearedOnlyAfterSuccessfulDown ==
    /\ unit.cleared # {} =>
          unit.resp = yes /\ Validated /\ unit.down = "ok"
    /\ unit.status = <<0>> =>
          Validated /\ unit.down = "ok" /\ EveryLaterStepDone

\* C29, amended: a data directory is cleared only after the user's answer,
\* stripped of surrounding whitespace, was yes, the required .env keys and
\* both restored paths were validated, and docker compose down -v was run
\* and ended with exit status 0 or not; and main returns 0 only if every
\* step other than the compose down succeeded.
C29_ClearedOnlyAfterDownWasRun ==
    /\ unit.cleared # {} =>
          /\ str_strip(unit.resp) = yes
          /\ Validated
          /\ unit.down \in {"ok", "CalledProcessError"}
    /\ unit.status = <<0>> =>
          /\ str_strip(unit.resp) = yes
          /\ Validated
          /\ unit.down \in {"ok", "CalledProcessError"}
          /\ EveryLaterStepDone

\* The compose down failed, the answer had surrounding whitespace, and the
\* run still cleared the four directories and returned 0.
C29_Witness ==
    /\ unit.pc = "returned"
    /\ unit.status = <<0>>
    /\ unit.down = "CalledProcessError"
    /\ unit.resp # yes
    /\ Cardinality(unit.cleared) = 4

\* -------------------------------------------------- src/cloud_backup.py
\* The retention periods of a run, in days.
MaxRetention == 2

\* "unable to open config file", the text initialize_repository looks for
\* in the standard error of restic snapshots.
NoConfigMessage ==
    <<"u", "n", "a", "b", "l", "e", " ", "t", "o", " ", "o", "p", "e", "n",
    " ", "c", "o", "n", "f", "i", "g", " ", "f", "i", "l", "e">>

\* sub in s
str_contains(s, sub) ==
    \E i \in 1..(Len(s) - Len(sub) + 1) : SubSeq(s, i, i + Len(sub) - 1) = sub

\* What restic may write to its standard error.
Stderrs ==
    { <<>>,
      NoConfigMessage,
      <<"F", "a", "t", "a", "l", ":", " ">> \o NoConfigMessage \o <<":", " ", "x">>,
      <<"F", "a", "t", "a", "l", ":", " ">> \o SubSeq(NoConfigMessage, 1, 14),
      <<"U", "n", "a", "b", "l", "e">> \o SubSeq(NoConfigMessage, 7, 26),
      <<"w", "r", "o", "n", "g", " ", "p", "a", "s", "s", "w", "o", "r", "d">> }

\* subprocess.run with check=False: a completed process, or no restic
\* executable (an OSError).
NoExecutable == [raised |-> "FileNotFoundError"]
Completed(returncode, stderr) ==
    [raised |-> None, returncode |-> returncode, stderr |-> stderr]
Processes ==
    {NoExecutable} \cup
    {Completed(rc, e) : rc \in {0, 1}, e \in Stderrs}

restic(args, outcome) == [args |-> args, outcome |-> outcome]

InitCloud ==
    /\ variant = "app"
    /\ Idle
    /\ \E command \in {"backup", "init", "prune"},
          retention_days \in 1..MaxRetention :
          unit = [command |-> command,
                  retention_days |-> retention_days,
                  pc |-> CASE command = "backup" -> "initialize_repository"
                           [] command = "init" -> "initialize_repository"
                           [] OTHER -> "prune_old_backups",
                  commands |-> <<>>,
                  done |-> {},
                  result |-> Unset,
                  error |-> Unset]

\* An exception leaves a step: run_full_backup catches it and returns
\* False; called from main directly, it reaches main's handler.
except(e) ==
    IF unit.command = "backup"
    THEN [unit EXCEPT !.pc = "returned", !.result = "False"]
    ELSE raise(e)

\* The step returned: the next statement of run_full_backup, or of main.
returned(name, next) ==
    IF unit.command = "backup"
    THEN [unit EXCEPT !.done = @ \cup {name},
             !.pc = IF next = "return" THEN "returned" ELSE next,
             !.result = IF next = "return" THEN "True" ELSE @]
    ELSE [unit EXCEPT !.done = @ \cup {name}, !.pc = "exited"]

\* A plausible slip: any failure of restic snapshots taken for a missing
\* repository.
repository_missing_any_failure(result) == result.returncode # 0

\* initialize_repository: result.returncode != 0 and
\* "unable to open config file" in result.stderr
repository_missing(result) ==
    result.returncode # 0 /\ str_contains(result.stderr, NoConfigMessage)

\* initialize_repository: restic snapshots, with check=False
initialize_repository ==
    /\ unit.pc = "initialize_repository"
    /\ \E p \in Processes :
          unit' = [(IF p = NoExecutable THEN except(p.raised)
                    ELSE IF repository_missing(p)
                    THEN [unit EXCEPT !.pc = "init"]
                    ELSE returned("initialize_repository", "create_backup"))
                   EXCEPT !.commands =
                       Append(unit.commands, restic(<<"snapshots">>, p))]
    /\ UNCHANGED <<variant, run>>

\* initialize_repository: restic init
initialize_repository_init ==
    /\ unit.pc = "init"
    /\ \E o \in Outcomes :
          unit' = [(IF o = "ok"
                    THEN returned("initialize_repository", "create_backup")
                    ELSE except(o))
                   EXCEPT !.commands =
                       Append(unit.commands, restic(<<"init">>, o))]
    /\ UNCHANGED <<variant, run>>

\* create_backup: restic backup
create_backup ==
    /\ unit.pc = "create_backup"
    /\ \E o \in Outcomes :
          unit' = [(IF o = "ok"
                    THEN returned("create_backup", "prune_old_backups")
                    ELSE except(o))
                   EXCEPT !.commands =
                       Append(unit.commands, restic(<<"backup">>, o))]
    /\ UNCHANGED <<variant, run>>

\* prune_old_backups: restic forget --keep-within <retention_days>d --prune
prune_old_backups ==
    /\ unit.pc = "prune_old_backups"
    /\ \E o \in Outcomes :
          unit' = [(IF o = "ok" THEN returned("prune_old_backups", "return")
                    ELSE except(o))
                   EXCEPT !.commands =
                       Append(unit.commands,
                              restic(<<"forget", unit.retention_days>>, o))]
    /\ UNCHANGED <<variant, run>>

NextCloud ==
    \/ initialize_repository
    \/ initialize_repository_init
    \/ create_backup
    \/ prune_old_backups

SpecCloud == InitCloud /\ [][NextCloud]_vars

\* The restic commands issued so far, by name.
Issued == [c \in DOMAIN unit.commands |-> unit.commands[c].args[1]]

IsPrefix(s, t) == Len(s) <= Len(t) /\ SubSeq(t, 1, Len(s)) = s

\* The command ended well enough for its step to go on: exit status 0,
\* and for restic snapshots any completed process.
WentOn(c) ==
    IF c.args[1] = "snapshots" THEN c.outcome # NoExecutable
    ELSE c.outcome = "ok"

\* C30: run_full_backup issues the commands of initialize_repository,
\* create_backup and prune_old_backups in that order and none after a
\* step failed, so that restic forget is issued only after restic backup
\* succeeded; no exception of a step leaves it; it returns True exactly
\* when the three steps returned; and restic init is issued only right
\* after a restic snapshots that ended with a non-zero status and the
\* missing-config message on its standard error.
C30_FullBackupInOrderFailFast ==
    unit.command = "backup" =>
        /\ \/ IsPrefix(Issued, <<"snapshots", "init", "backup", "forget">>)
           \/ IsPrefix(Issued, <<"snapshots", "backup", "forget">>)
        /\ \A c \in DOMAIN unit.commands :
              c < Len(unit.commands) => WentOn(unit.commands[c])
        /\ unit.pc # "raised"
        /\ unit.pc = "returned" =>
              /\ unit.result \in {"True", "False"}
              /\ unit.result = "True" <=>
                    unit.done = {"initialize_repository", "create_backup",
                                 "prune_old_backups"}
              /\ unit.result = "True" <=>
                    \A c \in DOMAIN unit.commands : WentOn(unit.commands[c])
        /\ \A c \in DOMAIN unit.commands :
              Issued[c] = "init" =>
                 /\ c > 1
                 /\ Issued[c - 1] = "snapshots"
                 /\ unit.commands[c - 1].outcome.returncode # 0
                 /\ str_contains(unit.commands[c - 1].outcome.stderr,
                                 NoConfigMessage)

\* A full backup that found no repository, initialised one, backed up,
\* pruned and returned True.
C30_Witness ==
    /\ unit.command = "backup"
    /\ unit.pc = "returned"
    /\ unit.result = "True"
    /\ Issued = <<"snapshots", "init", "backup", "forget">>

====
